---- MODULE Spec2Model ----
(***************************************************************************)
(* Adaptive screen capture and the capture / detect / render pipeline of   *)
(* screen-ghost: src-tauri/src/monitor/screen_shot.rs (capture backends,   *)
(* content validator, per-display method selector, DirectX resource pool)  *)
(* and src-tauri/src/system/monitoring/mod.rs (tick loop, prefetch).       *)
(***************************************************************************)
EXTENDS Integers, Sequences, FiniteSets, TLC

(***************************************************************************)
(* Bounds of the model.                                                    *)
(***************************************************************************)
MaxDisplays == 2   \* displays 0 .. MaxDisplays-1 (MonitorInfo.id)
MaxAttempts == 6   \* captures the sequential caller makes in one run
MaxLoops == 2      \* tick-loop threads that run() may spawn
MaxPrefetch == 2   \* thread identities available to spawn_prefetch
MaxTicks == 2      \* iterations the tick loops start in one run
MaxStarts == 1     \* set_working_monitor calls in one run
MaxRecords == 2    \* record_result calls applied to a drawn selector state
MaxFails == 3      \* failed ticks in a row that are told apart
MaxFrames == 3     \* stored frames, and taken frames, that are counted
MaxShade == 2      \* grey levels 0 .. MaxShade of the frames put to the validator
MaxRects == 2      \* regions the Detector returns for one frame
MaxMonitors == 3   \* displays the OS reports to list_monitors
MaxCalls == 5      \* calls made on the resource manager in one run
MaxNear == 20      \* configured intervals within this distance of 0 and of 1000
MaxSide == 4       \* width and height of the small frames that are downscaled
MaxOrder == 3      \* captures whose frames are numbered

(***************************************************************************)
(* Program constants.                                                      *)
(***************************************************************************)
SUCCESS_THRESHOLD == 3
\* u32::MAX is 4294967295; TLC's integers end at 2147483647, which stands
\* for it (no counter of a bounded run comes near either value)
U32_MAX == 2147483647
grid_x == 8
grid_y == 8

Displays == 0 .. (MaxDisplays - 1)

\* MonitorInfo of display id: a strip of id+2 pixels, one pixel high.
MonitorInfo(id) == [id |-> id, width |-> id + 2, height |-> 1]

CaptureMethod == {"Optimized", "Standard", "Alternative"}

Max(a, b) == IF a >= b THEN a ELSE b

(***************************************************************************)
(* Images.  data is the BGRA byte vector; a pixel is four bytes.           *)
(***************************************************************************)
NoImage == [width |-> 0, height |-> 0, data |-> << >>]

RECURSIVE PixelBytes(_)
PixelBytes(px) ==
    IF px = << >> THEN << >>
    ELSE <<Head(px), Head(px), Head(px), IF Head(px) = 0 THEN 0 ELSE 255>>
            \o PixelBytes(Tail(px))

\* variant: three bytes are allocated for a pixel
buffer_size_rgb(width, height) == width * height * 3

\* the length every backend gives its output buffer: vec![0u8; w * h * 4]
buffer_size(width, height) == width * height * 4

\* a buffer of n bytes, zero-filled, with the rows copied in from the start
Buffer(n, bytes) == SubSeq(bytes \o [i \in 1..n |-> 0], 1, n)

\* The buffers a backend can hand back for a w x h display: all zero, one
\* solid non-zero colour, and a frame whose first pixel differs from the rest.
FramesOf(w, h) ==
    { [width |-> w, height |-> h,
       data |-> Buffer(buffer_size(w, h), PixelBytes(px))] :
        px \in { [i \in 1..(w * h) |-> 0],
                 [i \in 1..(w * h) |-> 1],
                 [i \in 1..(w * h) |-> IF i = 1 THEN 1 ELSE 0] } }

(***************************************************************************)
(* Content validator: has_valid_content.                                   *)
(***************************************************************************)
\* byte offsets of the grid_x * grid_y samples, in scan order
SampleOffsets(width, height) ==
    [k \in 1..(grid_x * grid_y) |->
        LET gy == (k - 1) \div grid_x
            gx == (k - 1) % grid_x
            y == (gy * (height - 1)) \div Max(grid_y - 1, 1)
            x == (gx * (width - 1)) \div Max(grid_x - 1, 1)
        IN (y * width + x) * 4]

PixelAt(data, idx) == <<data[idx + 1], data[idx + 2], data[idx + 3], data[idx + 4]>>

\* variant: any non-zero sample makes the frame valid
has_valid_content_nonzero(image) ==
    LET width == Max(image.width, 1)
        height == Max(image.height, 1)
        data == image.data
        offs == SampleOffsets(width, height)
        kept == SelectSeq(offs, LAMBDA idx : ~(idx + 3 >= Len(data)))
    IN IF Len(data) < width * height * 4 THEN FALSE
       ELSE \E k \in 1..Len(kept) : PixelAt(data, kept[k]) # <<0, 0, 0, 0>>

has_valid_content(image) ==
    LET width == Max(image.width, 1)
        height == Max(image.height, 1)
        data == image.data
        offs == SampleOffsets(width, height)
        kept == SelectSeq(offs, LAMBDA idx : ~(idx + 3 >= Len(data)))
        first_color == PixelAt(data, Head(kept))
        non_zero == Cardinality({k \in 1..Len(kept) :
                        PixelAt(data, kept[k]) # <<0, 0, 0, 0>>})
        different_colors == Cardinality({k \in 1..Len(kept) :
                        PixelAt(data, kept[k]) # first_color})
    IN IF Len(data) < width * height * 4 THEN FALSE
       ELSE IF kept = << >> THEN FALSE
       ELSE non_zero > 0 /\ different_colors > 0

\* every buffer a backend of the model can hand back
AllFrames ==
    UNION { FramesOf(MonitorInfo(d).width, MonitorInfo(d).height) : d \in Displays }

\* the validator's verdict on each of them
ValidFrames == { f \in AllFrames : has_valid_content(f) }

IsValid(image) == image \in ValidFrames

(***************************************************************************)
(* Downscale for detection: downscale_image_bgra and its use in cal().     *)
(* capture_scale is a whole number of ten-thousandths (5000 is 0.5) and    *)
(* mosaic_scale of hundredths; the arithmetic is exact where the code      *)
(* computes in f32.                                                        *)
(***************************************************************************)
\* f32::round of n / d for d > 0: to the nearest integer, halves away from zero
Round(n, d) ==
    IF n >= 0 THEN (2 * n + d) \div (2 * d)
    ELSE 0 - ((2 * (0 - n) + d) \div (2 * d))

\* capture_scale and resize_ratio are counted in ten-thousandths
Unit == 10000

\* the capture_scale settings told apart: negative, 0, below the floor of
\* 0.1, 0.5, 0.8, 0.9999, 1.0 (also the value used when none is set), 1.5
CaptureScales == {0 - 5000, 0, 500, 5000, 8000, 9999, 10000, 15000}

\* ((src.width as f32) * scale).round().max(1.0) as usize
DstDim(src_dim, scale) == Max(Round(src_dim * scale, Unit), 1)

\* nearest-neighbour resample; the source itself when the size stays the same
downscale_image_bgra(src, scale) ==
    LET src_w == Max(src.width, 1)
        src_h == Max(src.height, 1)
        dst_w == DstDim(src.width, scale)
        dst_h == DstDim(src.height, scale)
        Src(i) ==           \* the source byte copied to byte i of dst
            LET d == (i - 1) \div 4
                dy == d \div dst_w
                dx == d % dst_w
                sy == IF (dy * src_h) \div dst_h < src_h - 1
                      THEN (dy * src_h) \div dst_h ELSE src_h - 1
                sx == IF (dx * src_w) \div dst_w < src_w - 1
                      THEN (dx * src_w) \div dst_w ELSE src_w - 1
            IN src.data[(sy * src_w + sx) * 4 + ((i - 1) % 4) + 1]
    IN IF dst_w = src_w /\ dst_h = src_h THEN src
       ELSE [width |-> dst_w, height |-> dst_h,
             data |-> [i \in 1..(dst_w * dst_h * 4) |-> Src(i)]]

\* capture_scale > 0.0 && capture_scale < 0.9999
DownscaleConfigured(capture_scale) == capture_scale > 0 /\ capture_scale < 9999

\* variant: the configured value is used as it is, however small
resize_ratio_unclamped(capture_scale) ==
    IF DownscaleConfigured(capture_scale) THEN capture_scale ELSE Unit

\* resize_ratio: capture_scale.max(0.1) when the downscale is configured, else 1.0
resize_ratio(capture_scale) ==
    IF DownscaleConfigured(capture_scale) THEN Max(capture_scale, 1000) ELSE Unit

\* the buffer cal() hands to the Detector
detection_image(image, capture_scale) ==
    IF DownscaleConfigured(capture_scale)
    THEN downscale_image_bgra(image, resize_ratio(capture_scale))
    ELSE image

\* width and height of detection_image for a frame of the given size
DetSize(size, capture_scale) ==
    IF DownscaleConfigured(capture_scale)
    THEN <<DstDim(size[1], resize_ratio(capture_scale)),
           DstDim(size[2], resize_ratio(capture_scale))>>
    ELSE size

Rect(x, y, width, height) == [x |-> x, y |-> y, width |-> width, height |-> height]

\* variant: the regions are multiplied by the ratio instead of divided
MapRect_multiplied(r, ratio) ==
    IF ratio = Unit THEN r
    ELSE Rect(Round(r.x * ratio, Unit), Round(r.y * ratio, Unit),
              Round(r.width * ratio, Unit), Round(r.height * ratio, Unit))

\* one region mapped back: unchanged when resize_ratio is 1.0, else every
\* field times inv = 1.0 / resize_ratio, rounded
MapRect(r, ratio) ==
    IF ratio = Unit THEN r
    ELSE Rect(Round(r.x * Unit, ratio), Round(r.y * Unit, ratio),
              Round(r.width * Unit, ratio), Round(r.height * Unit, ratio))

\* mapped_rects
MapRects(rects, ratio) == [i \in 1..Len(rects) |-> MapRect(rects[i], ratio)]

\* variant: the region is moved by the whole growth, not by half of it
MosaicOf_shifted(rect, s) ==
    [x |-> rect.x - Round(rect.width * s - rect.width * 100, 100),
     y |-> rect.y - Round(rect.height * s - rect.height * 100, 100),
     width |-> Round(rect.width * s, 100),
     height |-> Round(rect.height * s, 100)]

\* the closure of apply_mosaic: w' = round(w*s), x' = x - round((w*s - w)/2)
MosaicOf(rect, s) ==
    [x |-> rect.x - Round(rect.width * s - rect.width * 100, 200),
     y |-> rect.y - Round(rect.height * s - rect.height * 100, 200),
     width |-> Round(rect.width * s, 100),
     height |-> Round(rect.height * s, 100)]

Mosaics(rects, s) == [i \in 1..Len(rects) |-> MosaicOf(rects[i], s)]

(***************************************************************************)
(* Method selector: CaptureStats, choose_start_method, record_result.      *)
(***************************************************************************)
CaptureStatsDefault ==
    [consec_optimized |-> 0, consec_standard |-> 0, consec_alternative |-> 0,
     preferred |-> "Optimized"]

\* variant: the addition wraps around at the maximum
saturating_add_wrapping(c) == IF c >= U32_MAX THEN 0 ELSE c + 1

saturating_add(c) == IF c >= U32_MAX THEN U32_MAX ELSE c + 1

\* variant: the stored preferred method is ignored
choose_start_method_nopref(map, monitor_id) ==
    IF monitor_id \in DOMAIN map
    THEN LET m == map[monitor_id]
         IN IF m.consec_optimized >= SUCCESS_THRESHOLD THEN "Optimized"
            ELSE IF m.consec_standard >= SUCCESS_THRESHOLD THEN "Standard"
            ELSE IF m.consec_alternative >= SUCCESS_THRESHOLD THEN "Alternative"
            ELSE "Optimized"
    ELSE "Optimized"

choose_start_method(map, monitor_id) ==
    IF monitor_id \in DOMAIN map
    THEN LET m == map[monitor_id]
         IN IF m.consec_optimized >= SUCCESS_THRESHOLD THEN "Optimized"
            ELSE IF m.consec_standard >= SUCCESS_THRESHOLD THEN "Standard"
            ELSE IF m.consec_alternative >= SUCCESS_THRESHOLD THEN "Alternative"
            ELSE m.preferred
    ELSE "Optimized"

\* variant: a failure leaves the counter as it is
UpdateCount_noreset(entry, method, success) ==
    CASE method = "Optimized" ->
            [entry EXCEPT !.consec_optimized =
                IF success THEN saturating_add(@) ELSE @]
      [] method = "Standard" ->
            [entry EXCEPT !.consec_standard =
                IF success THEN saturating_add(@) ELSE @]
      [] method = "Alternative" ->
            [entry EXCEPT !.consec_alternative =
                IF success THEN saturating_add(@) ELSE @]

\* variant: a failure clears the counters of all three methods
UpdateCount_resetall(entry, method, success) ==
    IF success THEN UpdateCount_noreset(entry, method, success)
    ELSE [entry EXCEPT !.consec_optimized = 0, !.consec_standard = 0,
                       !.consec_alternative = 0]

\* the counter update of record_result (the match on method)
UpdateCount(entry, method, success) ==
    CASE method = "Optimized" ->
            [entry EXCEPT !.consec_optimized =
                IF success THEN saturating_add(@) ELSE 0]
      [] method = "Standard" ->
            [entry EXCEPT !.consec_standard =
                IF success THEN saturating_add(@) ELSE 0]
      [] method = "Alternative" ->
            [entry EXCEPT !.consec_alternative =
                IF success THEN saturating_add(@) ELSE 0]

\* variant: promotion needs more than SUCCESS_THRESHOLD successes
Promote_strict(entry) ==
    [entry EXCEPT !.preferred =
        IF entry.consec_optimized > SUCCESS_THRESHOLD THEN "Optimized"
        ELSE IF entry.consec_standard > SUCCESS_THRESHOLD THEN "Standard"
        ELSE IF entry.consec_alternative > SUCCESS_THRESHOLD THEN "Alternative"
        ELSE entry.preferred]

\* the promotion step of record_result
Promote(entry) ==
    [entry EXCEPT !.preferred =
        IF entry.consec_optimized >= SUCCESS_THRESHOLD THEN "Optimized"
        ELSE IF entry.consec_standard >= SUCCESS_THRESHOLD THEN "Standard"
        ELSE IF entry.consec_alternative >= SUCCESS_THRESHOLD THEN "Alternative"
        ELSE entry.preferred]

\* variant: one entry shared by all displays
record_result_shared(map, monitor_id, method, success) ==
    LET entry == IF monitor_id \in DOMAIN map THEN map[monitor_id]
                 ELSE CaptureStatsDefault
        new == Promote(UpdateCount(entry, method, success))
    IN [d \in (DOMAIN map) \cup {monitor_id} |-> new]

\* variant: the preferred method is chosen before the counter is updated
record_result_stale(map, monitor_id, method, success) ==
    LET entry == IF monitor_id \in DOMAIN map THEN map[monitor_id]
                 ELSE CaptureStatsDefault
        new == UpdateCount(Promote(entry), method, success)
    IN [d \in (DOMAIN map) \cup {monitor_id} |->
            IF d = monitor_id THEN new ELSE map[d]]

record_result(map, monitor_id, method, success) ==
    LET entry == IF monitor_id \in DOMAIN map THEN map[monitor_id]
                 ELSE CaptureStatsDefault
        new == Promote(UpdateCount(entry, method, success))
    IN [d \in (DOMAIN map) \cup {monitor_id} |->
            IF d = monitor_id THEN new ELSE map[d]]

\* variant: every attempt tries all three methods, whatever the start method
AttemptOrder_full(start) == <<"Optimized", "Standard", "Alternative">>

\* the attempt order screen_shot_directx builds from the start method
AttemptOrder(start) ==
    CASE start = "Optimized" -> <<"Optimized", "Standard", "Alternative">>
      [] start = "Standard" -> <<"Standard", "Alternative">>
      [] start = "Alternative" -> <<"Alternative">>


CounterOf(entry, method) ==
    CASE method = "Optimized" -> entry.consec_optimized
      [] method = "Standard" -> entry.consec_standard
      [] method = "Alternative" -> entry.consec_alternative

\* the stats of a display as the code reads them (no entry: the defaults)
StatsOf(map, d) == IF d \in DOMAIN map THEN map[d] ELSE CaptureStatsDefault

(***************************************************************************)
(* DirectXResourceManager: initialize and ensure_staging_texture.          *)
(***************************************************************************)
PoolNew == [is_initialized |-> FALSE, staging_texture |-> FALSE,
            last_width |-> 0, last_height |-> 0]

\* hr_ok: whether D3D11CreateDevice succeeds when it is called;
\* created: whether this call has made a device and a context
initialize(mgr, hr_ok) ==
    IF mgr.is_initialized THEN [ok |-> TRUE, mgr |-> mgr, created |-> FALSE]
    ELSE IF ~hr_ok THEN [ok |-> FALSE, mgr |-> mgr, created |-> FALSE]
    ELSE [ok |-> TRUE, mgr |-> [mgr EXCEPT !.is_initialized = TRUE],
          created |-> TRUE]

\* ensure_staging_texture without the early return on unchanged dimensions
ensure_staging_texture_always(mgr, width, height, tex_ok) ==
    IF ~mgr.is_initialized THEN [ok |-> TRUE, mgr |-> mgr, created |-> FALSE]
    ELSE IF ~tex_ok THEN [ok |-> FALSE, mgr |-> mgr, created |-> FALSE]
    ELSE [ok |-> TRUE,
          mgr |-> [mgr EXCEPT !.staging_texture = TRUE,
                              !.last_width = width, !.last_height = height],
          created |-> TRUE]

\* tex_ok: whether CreateTexture2D succeeds when it is called;
\* created: whether this call has made a staging texture
ensure_staging_texture(mgr, width, height, tex_ok) ==
    IF mgr.last_width = width /\ mgr.last_height = height /\ mgr.staging_texture
    THEN [ok |-> TRUE, mgr |-> mgr, created |-> FALSE]
    ELSE IF ~mgr.is_initialized THEN [ok |-> TRUE, mgr |-> mgr, created |-> FALSE]
    ELSE IF ~tex_ok THEN [ok |-> FALSE, mgr |-> mgr, created |-> FALSE]
    ELSE [ok |-> TRUE,
          mgr |-> [mgr EXCEPT !.staging_texture = TRUE,
                              !.last_width = width, !.last_height = height],
          created |-> TRUE]

(***************************************************************************)
(* Threads.                                                                *)
(***************************************************************************)
None == <<"none", 0>>
Main == <<"main", 0>>                       \* a sequential caller of capture
TickIds == { <<"tick", i>> : i \in 1..MaxLoops }
PrefIds == { <<"prefetch", i>> : i \in 1..MaxPrefetch }
Threads == {Main} \cup TickIds \cup PrefIds

\* thread-local state: the position and the locals of the capture in progress
LocalInit ==
    [pc |-> "idle", mon |-> 0, start |-> "Optimized", order |-> << >>,
     tried |-> << >>, dx |-> "none", dximg |-> NoImage, gdi |-> 0,
     gdires |-> "none", res |-> "none", img |-> NoImage, spawned |-> FALSE,
     acq |-> << >>,
     src |-> "none",      \* where cal() got its frame: "prefetch" or "sync"
     trig |-> FALSE,      \* cal() has called spawn_prefetch()
     det |-> "none",      \* the Detector call: "skip", "ok" or "err"
     emitted |-> FALSE,   \* cal() has called emit_frame_info
     mosaic |-> FALSE,    \* cal() has called apply_mosaic
     fails |-> 0,         \* history: failed ticks in a row of this loop
     atstop |-> FALSE,    \* history: this prefetch was in flight at a stop
     stale |-> FALSE]     \* history: the frame taken was stored by such a
                          \* one, and taken after that stop had returned

\* the record r with the fields of e added
With(r, e) == [f \in DOMAIN r \cup DOMAIN e |-> IF f \in DOMAIN e THEN e[f] ELSE r[f]]

\* the thread-local state with the locals of cal() from the frame on
MapLocal ==
    With(LocalInit,
         [size |-> <<0, 0>>,   \* width and height of the frame cal() detects on
          dsize |-> <<0, 0>>,  \* width and height of detection_image
          cs |-> 0,            \* capture_scale as read by this tick
          ms |-> 0,            \* mosaic_scale as read by this tick
          rects |-> << >>,     \* Ok(rects) of the Detector
          mapped |-> << >>,    \* mapped_rects, as given to emit_frame_info
          mosaics |-> << >>])  \* the Mosaic list apply_mosaic puts in its payload

\* the thread-local state with the locals of list_monitors
ListLocal ==
    With(LocalInit,
         [os |-> << >>,        \* what available_monitors() answered
          monitors |-> << >>]) \* the Vec<MonitorInfo> list_monitors builds

\* the thread-local state of a caller of the resource manager, with the
\* history of its calls
PoolLocal ==
    With(LocalInit,
         [ncall |-> 0,         \* calls made on the resource manager
          op |-> "none",       \* the last of them, "initialize" or "ensure"
          arg |-> <<0, 0>>,    \* width, height of the last ensure call
          parg |-> <<0, 0>>,   \* those of the ensure call before it
          made |-> FALSE,      \* the last call created what it manages
          devs |-> 0,          \* devices created so far
          was |-> << >>])      \* the manager before the last call

VARIABLES
    capture_state,   \* CAPTURE_STATE: display id -> CaptureStats
    pool,            \* DIRECTX_MANAGER contents
    poolOwner,       \* holder of the DIRECTX_MANAGER mutex
    captureOwner,    \* holder of CAPTURE_LOCK
    nfOwner,         \* holder of the NEXT_FRAME mutex
    next_frame,      \* NEXT_FRAME contents (NoImage: empty)
    PREFETCHING,     \* the in-flight flag
    working,         \* MONITOR_STATE: <<>> or <<display id>>
    THREAD,          \* the stored JoinHandle: None or a tick thread
    starter,         \* a set_working_monitor call between set_working and run()
    joiner,          \* the thread stop_monitoring joins, holding the THREAD mutex
    thr,             \* thread-local state
    ncap,            \* captures the sequential caller started (OrderSpec: captures
                     \* made by the threads of the session)
    nticks,          \* tick-loop iterations started
    nstart,          \* set_working_monitor calls made
    nstore,          \* history: frames stored in NEXT_FRAME
    ntake,           \* history: frames taken out of NEXT_FRAME
    nfStale,         \* history: the frame in NEXT_FRAME was stored by a
                     \* prefetch that was in flight at a stop
    streak,          \* history: successes recorded in a row per display, method
    overlay          \* the statics of overlay/overlay.rs and its publisher thread

vars == <<capture_state, pool, poolOwner, captureOwner, nfOwner, next_frame,
          PREFETCHING, working, THREAD, starter, joiner, thr, ncap, nticks, nstart,
          nstore, ntake, nfStale, streak, overlay>>

\* the statics of overlay/overlay.rs and the publisher thread. No step of
\* screen_shot.rs or of the frame handling of monitoring/mod.rs reads them;
\* they are followed in RenderSpec, and in the other specifications the call
\* of apply_mosaic is the tick's mosaic flag.
overlayVars == <<overlay>>

SEQ == overlay.SEQ                  \* payloads numbered so far
LATEST_MOSAIC == overlay.LATEST_MOSAIC      \* kept for polling (seq; 0: None)
MOSAIC_EMIT_BUF == overlay.MOSAIC_EMIT_BUF  \* waiting for the publisher (seq; 0: None)
MOSAIC_EMIT_THREAD == overlay.MOSAIC_EMIT_THREAD  \* the publisher has been spawned
emit == overlay.emit                \* the publisher: its position and payload_opt
published == overlay.published      \* history: the seq of every payload put in
                                    \* MOSAIC_EMIT_BUF, in this order
forwarded == overlay.forwarded      \* history: the payloads emitted

monVars == <<captureOwner, nfOwner, next_frame, PREFETCHING, working, THREAD,
             starter, joiner, nticks, nstart, nstore, ntake, nfStale>>

\* what a capture leaves alone
pipeVars == <<monVars, overlayVars>>

\* the state of screen_shot.rs shared between captures
selVars == <<capture_state, pool, poolOwner, streak>>

\* overlay.rs before the first apply_mosaic: SEQ 0, both slots None, no
\* publisher thread
InitOverlay ==
    overlay = [SEQ |-> 0, LATEST_MOSAIC |-> 0, MOSAIC_EMIT_BUF |-> 0,
               MOSAIC_EMIT_THREAD |-> FALSE,
               emit |-> [pc |-> "sleep", payload |-> 0, at |-> 0],
               published |-> << >>, forwarded |-> << >>]

Init ==
    /\ capture_state = << >>
    /\ pool = PoolNew
    /\ poolOwner = None
    /\ captureOwner = None
    /\ nfOwner = None
    /\ next_frame = NoImage
    /\ PREFETCHING = FALSE
    /\ working = << >>
    /\ THREAD = None
    /\ starter = FALSE
    /\ joiner = None
    /\ thr = [t \in Threads |-> LocalInit]
    /\ ncap = 0
    /\ nticks = 0
    /\ nstart = 0
    /\ nstore = 0
    /\ ntake = 0
    /\ nfStale = FALSE
    /\ InitOverlay
    /\ streak = [d \in Displays |-> [m \in CaptureMethod |-> 0]]

(***************************************************************************)
(* MonitorInfo::screen_shot and screen_shot_directx, step by step.         *)
(***************************************************************************)
InCapturePcs == {"ss_begin", "dx_loop", "opt_acquire", "opt_copy", "ss_check", "gdi"}

\* entry of screen_shot_directx: choose the start method, build the order
ScreenShotDirectx(t) ==
    /\ thr[t].pc = "ss_begin"
    /\ LET start == choose_start_method(capture_state, thr[t].mon)
       IN thr' = [thr EXCEPT ![t] =
                    [@ EXCEPT !.pc = "dx_loop", !.start = start,
                              !.order = AttemptOrder(start), !.tried = << >>,
                              !.dx = "none", !.dximg = NoImage, !.gdi = 0,
                              !.gdires = "none", !.res = "none", !.img = NoImage]]
    /\ UNCHANGED <<selVars, pipeVars, ncap>>

\* variant: a success does not leave the loop
AfterAttempt_continue(l, method, image, ok) ==
    [l EXCEPT !.pc = "dx_loop", !.order = Tail(@),
              !.tried = Append(@, [method |-> method, ok |-> ok]),
              !.dx = IF ok THEN "ok" ELSE @,
              !.dximg = IF ok THEN image ELSE @]

\* the match on res in the loop body: the locals after one method's result
AfterAttempt(l, method, image, ok) ==
    IF ok
    THEN [l EXCEPT !.pc = "ss_check", !.order = Tail(@),
                   !.tried = Append(@, [method |-> method, ok |-> TRUE]),
                   !.dx = "ok", !.dximg = image]
    ELSE [l EXCEPT !.pc = "dx_loop", !.order = Tail(@),
                   !.tried = Append(@, [method |-> method, ok |-> FALSE])]

\* one backend returned image (NoImage: it returned Err): validate and record
RecordAttempt(t, method, image) ==
    LET d == thr[t].mon
        ok == image # NoImage /\ IsValid(image)
    IN /\ capture_state' = record_result(capture_state, d, method, ok)
       /\ streak' = [streak EXCEPT ![d][method] = IF ok THEN @ + 1 ELSE 0]
       /\ thr' = [thr EXCEPT ![t] = AfterAttempt(@, method, image, ok)]

Trying(t, method) ==
    /\ thr[t].pc = "dx_loop"
    /\ thr[t].order # << >>
    /\ Head(thr[t].order) = method

\* variant: the manager guard is still held when the DXGI calls start
PoolGuardAfterSetup_kept(t) == t

\* the scope that holds the manager guard ends before the DXGI calls
PoolGuardAfterSetup(t) == None

\* screen_shot_directx_optimized, first block: lock the pool, initialize,
\* ensure the staging texture, clone the handles
OptSetup(t) ==
    /\ Trying(t, "Optimized")
    /\ poolOwner = None
    /\ \E hr_ok \in BOOLEAN, tex_ok \in BOOLEAN :
         LET w == MonitorInfo(thr[t].mon).width
             h == MonitorInfo(thr[t].mon).height
             i == initialize(pool, hr_ok)
             e == ensure_staging_texture(i.mgr, w, h, tex_ok)
         IN /\ pool.is_initialized => hr_ok
            /\ (~i.ok \/ (e.mgr = i.mgr)) => tex_ok
            /\ IF ~i.ok
               THEN /\ pool' = i.mgr
                    /\ poolOwner' = None
                    /\ RecordAttempt(t, "Optimized", NoImage)
               ELSE IF ~e.ok
               THEN /\ pool' = e.mgr
                    /\ poolOwner' = None
                    /\ RecordAttempt(t, "Optimized", NoImage)
               ELSE /\ pool' = e.mgr
                    /\ poolOwner' = PoolGuardAfterSetup(t)
                    /\ thr' = [thr EXCEPT ![t].pc = "opt_acquire"]
                    /\ UNCHANGED <<capture_state, streak>>
    /\ UNCHANGED <<pipeVars, ncap>>

\* output match, DuplicateOutput retries, AcquireNextFrame
OptAcquire(t) ==
    /\ thr[t].pc = "opt_acquire"
    /\ \/ /\ thr' = [thr EXCEPT ![t].pc = "opt_copy"]
          /\ UNCHANGED <<capture_state, streak>>
       \/ /\ thr[t].order # << >>
          /\ RecordAttempt(t, "Optimized", NoImage)
    /\ UNCHANGED <<pool, poolOwner, pipeVars, ncap>>

\* second block: lock the pool again, copy the rows into the output buffer
OptCopy(t) ==
    /\ thr[t].pc = "opt_copy"
    /\ poolOwner = None
    /\ \E image \in FramesOf(MonitorInfo(thr[t].mon).width,
                             MonitorInfo(thr[t].mon).height) :
          RecordAttempt(t, "Optimized", image)
    /\ UNCHANGED <<pool, poolOwner, pipeVars, ncap>>

\* screen_shot_directx_standard and its result in the loop
StdAttempt(t) ==
    /\ Trying(t, "Standard")
    /\ \E image \in {NoImage} \cup FramesOf(MonitorInfo(thr[t].mon).width,
                                            MonitorInfo(thr[t].mon).height) :
          RecordAttempt(t, "Standard", image)
    /\ UNCHANGED <<pool, poolOwner, pipeVars, ncap>>

\* screen_shot_directx_alternative and its result in the loop
AltAttempt(t) ==
    /\ Trying(t, "Alternative")
    /\ \E image \in {NoImage} \cup FramesOf(MonitorInfo(thr[t].mon).width,
                                            MonitorInfo(thr[t].mon).height) :
          RecordAttempt(t, "Alternative", image)
    /\ UNCHANGED <<pool, poolOwner, pipeVars, ncap>>

\* the loop ran out of methods: Err("All DirectX methods failed ...")
DxExhausted(t) ==
    /\ thr[t].pc = "dx_loop"
    /\ thr[t].order = << >>
    /\ thr' = [thr EXCEPT ![t] = [@ EXCEPT !.pc = "ss_check", !.dx = "err"]]
    /\ UNCHANGED <<selVars, pipeVars, ncap>>

\* variant: the validity test on the DirectX frame is inverted
DirectxAccepted_inverted(l) == l.dx = "ok" /\ ~IsValid(l.dximg)

\* screen_shot: does the DirectX result end the capture?
DirectxAccepted(l) == l.dx = "ok" /\ IsValid(l.dximg)

ScreenShotCheck(t) ==
    /\ thr[t].pc = "ss_check"
    /\ thr' = [thr EXCEPT ![t] =
                 IF DirectxAccepted(thr[t])
                 THEN [thr[t] EXCEPT !.pc = "ss_ret", !.res = "ok",
                                     !.img = thr[t].dximg]
                 ELSE [thr[t] EXCEPT !.pc = "gdi"]]
    /\ UNCHANGED <<selVars, pipeVars, ncap>>

\* variant: a GDI frame the validator rejects is turned into an error
GdiReturn_validated(l, image) ==
    [l EXCEPT !.pc = "ss_ret", !.gdi = @ + 1,
              !.gdires = IF image = NoImage THEN "err" ELSE "ok",
              !.res = IF image = NoImage \/ ~IsValid(image) THEN "err" ELSE "ok",
              !.img = IF image = NoImage \/ ~IsValid(image) THEN NoImage ELSE image]

\* what screen_shot returns for the outcome of screen_shot_gdi
GdiReturn(l, image) ==
    [l EXCEPT !.pc = "ss_ret", !.gdi = @ + 1,
              !.gdires = IF image = NoImage THEN "err" ELSE "ok",
              !.res = IF image = NoImage THEN "err" ELSE "ok",
              !.img = image]

\* screen_shot_gdi: the last resort; its result is the result of screen_shot
ScreenShotGdi(t) ==
    /\ thr[t].pc = "gdi"
    /\ \E image \in {NoImage} \cup FramesOf(MonitorInfo(thr[t].mon).width,
                                            MonitorInfo(thr[t].mon).height) :
          thr' = [thr EXCEPT ![t] = GdiReturn(@, image)]
    /\ UNCHANGED <<selVars, pipeVars, ncap>>

(***************************************************************************)
(* A sequential caller: capture_monitor_image for any display, in a row.   *)
(***************************************************************************)
SeqCall(d) ==
    /\ thr[Main].pc = "idle"
    /\ ncap < MaxAttempts
    /\ ncap' = ncap + 1
    /\ thr' = [thr EXCEPT ![Main] = [LocalInit EXCEPT !.pc = "ss_begin", !.mon = d]]
    /\ UNCHANGED <<selVars, pipeVars>>

SeqReturn ==
    /\ thr[Main].pc = "ss_ret"
    /\ thr' = [thr EXCEPT ![Main] = LocalInit]
    /\ UNCHANGED <<selVars, pipeVars, ncap>>

NextSeq ==
    \/ \E d \in Displays : SeqCall(d)
    \/ ScreenShotDirectx(Main)
    \/ OptSetup(Main)
    \/ OptAcquire(Main)
    \/ OptCopy(Main)
    \/ StdAttempt(Main)
    \/ AltAttempt(Main)
    \/ DxExhausted(Main)
    \/ ScreenShotCheck(Main)
    \/ ScreenShotGdi(Main)
    \/ SeqReturn

SeqSpec == Init /\ [][NextSeq]_vars


(***************************************************************************)
(* ValSpec: has_valid_content applied to frames drawn from a bounded set:  *)
(* every frame of the displays' sizes with grey levels 0 .. MaxShade, and  *)
(* every black-and-grey frame one pixel wider than the sampling grid, in   *)
(* which one pixel is not sampled.                                         *)
(***************************************************************************)
TestFrames ==
    UNION { { [width |-> MonitorInfo(d).width, height |-> MonitorInfo(d).height,
               data |-> Buffer(buffer_size(MonitorInfo(d).width, MonitorInfo(d).height),
                               PixelBytes(px))] :
                px \in [1..(MonitorInfo(d).width * MonitorInfo(d).height)
                           -> 0..MaxShade] } : d \in Displays }
    \cup { [width |-> grid_x + 1, height |-> 1,
            data |-> Buffer(buffer_size(grid_x + 1, 1), PixelBytes(px))] :
              px \in [1..(grid_x + 1) -> {0, 1}] }

InitVal ==
    /\ capture_state = << >>
    /\ pool = PoolNew
    /\ poolOwner = None
    /\ captureOwner = None
    /\ nfOwner = None
    /\ next_frame = NoImage
    /\ PREFETCHING = FALSE
    /\ working = << >>
    /\ THREAD = None
    /\ starter = FALSE
    /\ joiner = None
    /\ \E f \in TestFrames :
          thr = [t \in Threads |->
                   IF t = Main THEN [LocalInit EXCEPT !.pc = "validate", !.img = f]
                   ELSE LocalInit]
    /\ ncap = 0
    /\ nticks = 0
    /\ nstart = 0
    /\ nstore = 0
    /\ ntake = 0
    /\ nfStale = FALSE
    /\ InitOverlay
    /\ streak = [d \in Displays |-> [m \in CaptureMethod |-> 0]]

\* self.has_valid_content(&image) and the branch taken on its answer
Validate ==
    /\ thr[Main].pc = "validate"
    /\ thr' = [thr EXCEPT ![Main] =
                 [thr[Main] EXCEPT !.pc = "validated",
                                   !.res = IF has_valid_content(thr[Main].img)
                                           THEN "valid" ELSE "blank"]]
    /\ UNCHANGED <<selVars, pipeVars, ncap>>

NextVal == Validate

ValSpec == InitVal /\ [][NextVal]_vars

(***************************************************************************)
(* ListSpec: list_monitors on every answer of the OS with up to            *)
(* MaxMonitors displays of 1920 x 1080 placed on a grid that has displays  *)
(* left of and below the primary one; two displays may share a position.   *)
(* scale_factor is copied through and is left out.                         *)
(***************************************************************************)
OsMonitors ==
    { [x |-> px, y |-> py, width |-> 1920, height |-> 1080] :
        px \in {0 - 1920, 0, 1920}, py \in {0, 1080} }

OsAnswers == UNION { [1..n -> OsMonitors] : n \in 0..MaxMonitors }

\* the closure given to sort_by with x compared first
monitor_cmp_x_first(a, b) ==
    IF a.x # b.x THEN (IF a.x < b.x THEN "Less" ELSE "Greater")
    ELSE IF a.y < b.y THEN "Less"
    ELSE IF a.y > b.y THEN "Greater" ELSE "Equal"

\* the closure given to sort_by: a.y.cmp(&b.y), and a.x.cmp(&b.x) on Equal
monitor_cmp(a, b) ==
    IF a.y # b.y THEN (IF a.y < b.y THEN "Less" ELSE "Greater")
    ELSE IF a.x < b.x THEN "Less"
    ELSE IF a.x > b.x THEN "Greater" ELSE "Equal"

\* into_iter().enumerate().map(..).collect(): id is the index in the answer
enumerate_monitors(os) ==
    [i \in 1..Len(os) |->
       [id |-> i - 1, x |-> os[i].x, y |-> os[i].y,
        width |-> os[i].width, height |-> os[i].height]]

\* one element put into a sorted Vec behind every element that is not
\* Greater than it
sort_insert(sorted, m) ==
    LET k == Cardinality({ i \in 1..Len(sorted) :
                             monitor_cmp(sorted[i], m) # "Greater" })
    IN SubSeq(sorted, 1, k) \o <<m>> \o SubSeq(sorted, k + 1, Len(sorted))

\* Vec::sort_by: a stable sort, the elements taken in their order
RECURSIVE sort_by(_)
sort_by(v) ==
    IF v = << >> THEN << >>
    ELSE sort_insert(sort_by(SubSeq(v, 1, Len(v) - 1)), v[Len(v)])

InitList ==
    /\ capture_state = << >>
    /\ pool = PoolNew
    /\ poolOwner = None
    /\ captureOwner = None
    /\ nfOwner = None
    /\ next_frame = NoImage
    /\ PREFETCHING = FALSE
    /\ working = << >>
    /\ THREAD = None
    /\ starter = FALSE
    /\ joiner = None
    /\ thr = [t \in Threads |->
                IF t = Main THEN [ListLocal EXCEPT !.pc = "list_monitors"]
                ELSE LocalInit]
    /\ ncap = 0
    /\ nticks = 0
    /\ nstart = 0
    /\ nstore = 0
    /\ ntake = 0
    /\ nfStale = FALSE
    /\ InitOverlay
    /\ streak = [d \in Displays |-> [m \in CaptureMethod |-> 0]]

\* window.available_monitors(): an Err makes list_monitors panic
ListQuery ==
    /\ thr[Main].pc = "list_monitors"
    /\ \/ thr' = [thr EXCEPT ![Main] =
                     [thr[Main] EXCEPT !.pc = "list_panic", !.res = "panic"]]
       \/ \E os \in OsAnswers :
             thr' = [thr EXCEPT ![Main] =
                       [thr[Main] EXCEPT !.pc = "list_collect", !.os = os]]
    /\ UNCHANGED <<selVars, pipeVars, ncap>>

\* the rest of list_monitors: collect, sort_by, log, Ok(monitors)
ListCollect ==
    /\ thr[Main].pc = "list_collect"
    /\ thr' = [thr EXCEPT ![Main] =
                 [thr[Main] EXCEPT
                    !.pc = "list_done",
                    !.monitors = sort_by(enumerate_monitors(thr[Main].os)),
                    !.res = "ok"]]
    /\ UNCHANGED <<selVars, pipeVars, ncap>>

NextList == ListQuery \/ ListCollect

ListSpec == InitList /\ [][NextList]_vars

(***************************************************************************)
(* PoolSpec: one caller makes up to MaxCalls calls of initialize and        *)
(* ensure_staging_texture on a new DirectXResourceManager, in any order,   *)
(* with the displays' dimensions, each creation succeeding or failing.     *)
(***************************************************************************)
PoolDims == { <<MonitorInfo(d).width, MonitorInfo(d).height>> : d \in Displays }

InitPool ==
    /\ capture_state = << >>
    /\ pool = PoolNew
    /\ poolOwner = None
    /\ captureOwner = None
    /\ nfOwner = None
    /\ next_frame = NoImage
    /\ PREFETCHING = FALSE
    /\ working = << >>
    /\ THREAD = None
    /\ starter = FALSE
    /\ joiner = None
    /\ thr = [t \in Threads |->
                IF t = Main THEN [PoolLocal EXCEPT !.pc = "pool_call"]
                ELSE LocalInit]
    /\ ncap = 0
    /\ nticks = 0
    /\ nstart = 0
    /\ nstore = 0
    /\ ntake = 0
    /\ nfStale = FALSE
    /\ InitOverlay
    /\ streak = [d \in Displays |-> [m \in CaptureMethod |-> 0]]

\* mgr.initialize()
PoolInitialize ==
    /\ thr[Main].pc = "pool_call"
    /\ thr[Main].ncall < MaxCalls
    /\ \E hr_ok \in BOOLEAN :
         LET i == initialize(pool, hr_ok)
         IN /\ pool.is_initialized => hr_ok
            /\ pool' = i.mgr
            /\ thr' = [thr EXCEPT ![Main] =
                         [thr[Main] EXCEPT
                            !.ncall = @ + 1,
                            !.op = "initialize",
                            !.res = IF i.ok THEN "ok" ELSE "err",
                            !.made = i.created,
                            !.devs = IF i.created THEN @ + 1 ELSE @,
                            !.was = pool]]
    /\ UNCHANGED <<capture_state, streak, poolOwner, pipeVars, ncap>>

\* mgr.ensure_staging_texture(width, height)
PoolEnsure ==
    /\ thr[Main].pc = "pool_call"
    /\ thr[Main].ncall < MaxCalls
    /\ \E dim \in PoolDims, tex_ok \in BOOLEAN :
         LET e == ensure_staging_texture(pool, dim[1], dim[2], tex_ok)
         IN /\ (ensure_staging_texture(pool, dim[1], dim[2], FALSE).ok) => tex_ok
            /\ pool' = e.mgr
            /\ thr' = [thr EXCEPT ![Main] =
                         [thr[Main] EXCEPT
                            !.ncall = @ + 1,
                            !.op = "ensure",
                            !.res = IF e.ok THEN "ok" ELSE "err",
                            !.made = e.created,
                            !.parg = thr[Main].arg,
                            !.arg = dim,
                            !.was = pool]]
    /\ UNCHANGED <<capture_state, streak, poolOwner, pipeVars, ncap>>

NextPool == PoolInitialize \/ PoolEnsure

PoolSpec == InitPool /\ [][NextPool]_vars

(***************************************************************************)
(* SelSpec: record_result applied to selector states drawn from a bounded  *)
(* set, the counters next to the threshold and next to u32::MAX included.  *)
(***************************************************************************)
CounterVals == {0, 1, 2, SUCCESS_THRESHOLD, U32_MAX - 1, U32_MAX}

\* the entries CAPTURE_STATE can hold: a method is only tried when no better
\* one is at the threshold, so at most one counter is there, and that method
\* is the preferred one
DrawnStats ==
    { e \in [consec_optimized : CounterVals, consec_standard : CounterVals,
             consec_alternative : CounterVals, preferred : CaptureMethod] :
        LET at == {m \in CaptureMethod : CounterOf(e, m) >= SUCCESS_THRESHOLD}
        IN Cardinality(at) <= 1 /\ (at # {} => e.preferred \in at) }

InitSel ==
    /\ capture_state \in
          {<< >>} \cup { [d \in {k} |-> e] : k \in Displays, e \in DrawnStats }
    /\ pool = PoolNew
    /\ poolOwner = None
    /\ captureOwner = None
    /\ nfOwner = None
    /\ next_frame = NoImage
    /\ PREFETCHING = FALSE
    /\ working = << >>
    /\ THREAD = None
    /\ starter = FALSE
    /\ joiner = None
    /\ thr = [t \in Threads |-> LocalInit]
    /\ ncap = 0
    /\ nticks = 0
    /\ nstart = 0
    /\ nstore = 0
    /\ ntake = 0
    /\ nfStale = FALSE
    /\ InitOverlay
    /\ streak = [d \in Displays |-> [m \in CaptureMethod |-> 0]]

\* one call record_result(monitor_id, method, success); the caller's locals
\* keep the arguments of the call
RecordResult(monitor_id, method, success) ==
    /\ ncap < MaxRecords
    /\ ncap' = ncap + 1
    /\ capture_state' = record_result(capture_state, monitor_id, method, success)
    /\ thr' = [thr EXCEPT ![Main] =
                 [LocalInit EXCEPT !.pc = "recorded", !.mon = monitor_id,
                                   !.tried = <<[method |-> method, ok |-> success]>>]]
    /\ UNCHANGED <<pool, poolOwner, streak, pipeVars>>

NextSel ==
    \E d \in Displays, m \in CaptureMethod, ok \in BOOLEAN : RecordResult(d, m, ok)

SelSpec == InitSel /\ [][NextSel]_vars

(***************************************************************************)
(* monitoring/mod.rs: set_working_monitor, stop_monitoring, run.           *)
(***************************************************************************)
\* a thread identity that is not running and whose handle nobody holds
Free(t) == thr[t].pc \in {"idle", "done"} /\ t # THREAD /\ t # joiner

LowestFree(S) == CHOOSE t \in S : Free(t) /\ \A u \in S : Free(u) => t[2] <= u[2]

\* set_working_monitor up to the call of run(): overlay, set_working(Some)
SetWorkingMonitor(d) ==
    /\ ~starter
    /\ nstart < MaxStarts
    /\ nstart' = nstart + 1
    /\ working' = <<d>>
    /\ starter' = TRUE
    /\ UNCHANGED <<overlayVars, selVars, captureOwner, nfOwner, next_frame, PREFETCHING,
                   THREAD, joiner, thr, ncap, nticks, nstore, ntake, nfStale>>

\* run(): lock THREAD, spawn the loop thread, store its handle
Run ==
    /\ starter
    /\ joiner = None
    /\ \E t \in TickIds : Free(t)
    /\ LET t == LowestFree(TickIds)
       IN /\ thr' = [thr EXCEPT ![t] = [LocalInit EXCEPT !.pc = "loop"]]
          /\ THREAD' = t
    /\ starter' = FALSE
    /\ UNCHANGED <<overlayVars, selVars, captureOwner, nfOwner, next_frame, PREFETCHING,
                   working, joiner, ncap, nticks, nstart, nstore, ntake, nfStale>>

\* stop_monitoring up to the join: set_working(None), lock THREAD, take the
\* handle; the prefetch threads in flight are left alone (and marked, as history)
StopMonitoring ==
    /\ joiner = None
    /\ working' = << >>
    /\ joiner' = THREAD
    /\ THREAD' = None
    /\ thr' = [t \in Threads |->
                 IF t \in PrefIds /\ thr[t].pc # "idle"
                 THEN [thr[t] EXCEPT !.atstop = TRUE] ELSE thr[t]]
    /\ UNCHANGED <<overlayVars, selVars, captureOwner, nfOwner, next_frame, PREFETCHING,
                   starter, ncap, nticks, nstart, nstore, ntake, nfStale>>

\* thread.join() returns once the loop thread has ended
StopJoined ==
    /\ joiner # None
    /\ thr[joiner].pc = "done"
    /\ thr' = [thr EXCEPT ![joiner] = LocalInit]
    /\ joiner' = None
    /\ UNCHANGED <<overlayVars, selVars, captureOwner, nfOwner, next_frame, PREFETCHING,
                   working, THREAD, starter, ncap, nticks, nstart, nstore, ntake, nfStale>>

(***************************************************************************)
(* The tick loop of run() and cal().                                       *)
(***************************************************************************)
\* variant: the loop gives up after two failed ticks in a row
LoopBreaks_onfailures(w, fails) == w = << >> \/ fails >= 2

\* if !MonitorState::is_working_set() { break; }
LoopBreaks(w, fails) == w = << >>

\* did the tick that has just ended fail in capture or in detection?
TickFailed(l) == l.res = "err" \/ l.det = "err"

\* the failed ticks in a row, the tick that has just ended included
FailsAfter(l) ==
    IF TickFailed(l)
    THEN IF l.fails < MaxFails THEN l.fails + 1 ELSE MaxFails
    ELSE 0

\* the head of the loop: break, or call cal(); n is the failure history kept
LoopHead(t, n) ==
    /\ thr[t].pc = "loop"
    /\ thr' = [thr EXCEPT ![t] =
                 [LocalInit EXCEPT !.pc = IF LoopBreaks(working, n)
                                          THEN "done" ELSE "cal",
                                   !.fails = n]]

\* loop { if !is_working_set() { break; } cal(); sleep(interval); }, with the
\* iterations counted up to MaxTicks and no failure history
LoopCheck(t) ==
    /\ LoopHead(t, 0)
    /\ IF thr'[t].pc = "done"
       THEN UNCHANGED nticks
       ELSE /\ nticks < MaxTicks
            /\ nticks' = nticks + 1
    /\ UNCHANGED <<overlayVars, selVars, captureOwner, nfOwner, next_frame, PREFETCHING,
                   working, THREAD, starter, joiner, ncap, nstart, nstore, ntake, nfStale>>

\* the same loop head, iterations not counted, failed ticks in a row counted
LoopForever(t) ==
    /\ LoopHead(t, FailsAfter(thr[t]))
    /\ UNCHANGED <<selVars, pipeVars, ncap>>

\* cal() returns and the loop thread sleeps for the interval, before the next
\* test at the head of the loop; of the locals of cal() only the outcome of
\* the tick is kept, as history
EndTick(l) ==
    [LocalInit EXCEPT !.pc = "loop", !.res = l.res, !.det = l.det,
                      !.emitted = l.emitted, !.mosaic = l.mosaic,
                      !.fails = l.fails]

\* cal(): MonitorState::get_working(); Err: return silently
CalGetWorking(t) ==
    /\ thr[t].pc = "cal"
    /\ thr' = [thr EXCEPT ![t] =
                 IF working = << >>
                 THEN EndTick(thr[t])
                 ELSE [LocalInit EXCEPT !.pc = "cal_lock_nf", !.mon = working[1],
                                        !.fails = thr[t].fails]]
    /\ UNCHANGED <<selVars, pipeVars, ncap>>

\* next_frame_buf().lock()
CalLockFrame(t) ==
    /\ thr[t].pc = "cal_lock_nf"
    /\ nfOwner = None
    /\ nfOwner' = t
    /\ thr' = [thr EXCEPT ![t] = [thr[t] EXCEPT !.pc = "cal_take",
                                     !.acq = Append(thr[t].acq, "NEXT_FRAME")]]
    /\ UNCHANGED <<overlayVars, selVars, captureOwner, next_frame, PREFETCHING, working,
                   THREAD, starter, joiner, ncap, nticks, nstart, nstore, ntake, nfStale>>

\* variant: the NEXT_FRAME guard outlives the if-let block around take()
FrameGuardAfterTake_kept(t) == t

\* the NEXT_FRAME guard lives to the end of the if-let block around take()
FrameGuardAfterTake(t) == None

\* one more frame stored or taken; the count stops at MaxFrames
Counted(n) == IF n < MaxFrames THEN n + 1 ELSE MaxFrames

\* variant: the frame is copied out and stays in the buffer
AfterTake_kept(slot) == slot

\* Option::take leaves None in the buffer
AfterTake(slot) == NoImage

\* from_prefetch = guard.take()
CalTake(t) ==
    /\ thr[t].pc = "cal_take"
    /\ next_frame' = AfterTake(next_frame)
    /\ nfOwner' = FrameGuardAfterTake(t)
    /\ ntake' = IF next_frame # NoImage THEN Counted(ntake) ELSE ntake
    /\ nfStale' = (nfStale /\ next_frame' # NoImage)
    /\ thr' = [thr EXCEPT ![t] =
                 IF next_frame # NoImage
                 THEN [thr[t] EXCEPT !.pc = "cal_got", !.res = "ok",
                                     !.img = next_frame, !.src = "prefetch",
                                     !.stale = (nfStale /\ joiner = None)]
                 ELSE [thr[t] EXCEPT !.pc = "cal_lock_cap"]]
    /\ UNCHANGED <<overlayVars, selVars, captureOwner, PREFETCHING, working, THREAD,
                   starter, joiner, ncap, nticks, nstart, nstore>>

\* let _g = CAPTURE_LOCK.lock(): the guard is bound and kept
CalCaptureGuard(t) == t

\* the else branch: lock CAPTURE_LOCK, then capture_monitor_image
CalLockCapture(t) ==
    /\ thr[t].pc = "cal_lock_cap"
    /\ captureOwner = None
    /\ captureOwner' = CalCaptureGuard(t)
    /\ thr' = [thr EXCEPT ![t] = [thr[t] EXCEPT !.pc = "ss_begin", !.src = "sync",
                                     !.acq = Append(thr[t].acq, "CAPTURE_LOCK")]]
    /\ UNCHANGED <<overlayVars, selVars, nfOwner, next_frame, PREFETCHING, working, THREAD,
                   starter, joiner, ncap, nticks, nstart, nstore, ntake, nfStale>>

\* a guard that goes out of scope (or is dropped) frees the lock it holds
GuardDropped(t, owner) == IF owner = t THEN None ELSE owner

\* capture_monitor_image returned; the else block ends and drops _g
CalCaptured(t) ==
    /\ t \in TickIds
    /\ thr[t].pc = "ss_ret"
    /\ captureOwner' = GuardDropped(t, captureOwner)
    /\ thr' = [thr EXCEPT ![t] =
                 [LocalInit EXCEPT !.pc = "cal_got", !.mon = thr[t].mon,
                                   !.res = thr[t].res, !.img = thr[t].img,
                                   !.acq = thr[t].acq, !.src = thr[t].src,
                                   !.fails = thr[t].fails, !.stale = thr[t].stale]]
    /\ UNCHANGED <<overlayVars, selVars, nfOwner, next_frame, PREFETCHING, working, THREAD,
                   starter, joiner, ncap, nticks, nstart, nstore, ntake, nfStale>>

\* variant: the flag is set without being tested
CasPrefetching_always(flag) == TRUE

\* PREFETCHING.compare_exchange(false, true): does the caller go on to spawn?
CasPrefetching(flag) == ~flag

\* variant: cal() goes on to the Detector without calling spawn_prefetch()
TriggersPrefetch_never(res) == FALSE

\* Ok(image) => { ...; spawn_prefetch(); ... }
TriggersPrefetch(res) == res = "ok"

\* match image_result: Err ends the tick; Ok calls spawn_prefetch()
CalResult(t) ==
    /\ thr[t].pc = "cal_got"
    /\ IF thr[t].res # "ok"
       THEN /\ thr' = [thr EXCEPT ![t] = EndTick(thr[t])]
            /\ UNCHANGED PREFETCHING
       ELSE IF ~TriggersPrefetch(thr[t].res)
       THEN /\ thr' = [thr EXCEPT ![t].pc = "cal_detect"]
            /\ UNCHANGED PREFETCHING
       ELSE IF CasPrefetching(PREFETCHING)
       THEN /\ \E p \in PrefIds : Free(p)
            /\ PREFETCHING' = TRUE
            /\ LET p == LowestFree(PrefIds)
               IN thr' = [thr EXCEPT
                            ![t] = [thr[t] EXCEPT !.pc = "cal_detect", !.trig = TRUE,
                                                  !.spawned = TRUE],
                            ![p] = [LocalInit EXCEPT !.pc = "pf_start"]]
       ELSE /\ thr' = [thr EXCEPT ![t] = [thr[t] EXCEPT !.pc = "cal_detect",
                                                        !.trig = TRUE]]
            /\ UNCHANGED PREFETCHING
    /\ UNCHANGED <<overlayVars, selVars, captureOwner, nfOwner, next_frame, working, THREAD,
                   starter, joiner, ncap, nticks, nstart, nstore, ntake, nfStale>>

\* what is_face_model_ready() and detect_targets_or_all_faces can answer:
\* model not ready (the tick returns), Ok(rects), Err(e)
DetectOutcomes == {"skip", "ok", "err"}

\* variant: the regions are published whatever the Detector answered
PublishesAfter_any(det) == det # "skip"

\* match detect_targets_or_all_faces(..): only the Ok arm publishes
PublishesAfter(det) == det = "ok"

\* the model-ready test, the Detector call on the frame of this tick and, in
\* its Ok arm, emit_frame_info(mapped_rects) and apply_mosaic(mapped_rects, ..);
\* then cal() returns
CalDetect(t) ==
    /\ thr[t].pc = "cal_detect"
    /\ \E outcome \in DetectOutcomes :
          thr' = [thr EXCEPT ![t] =
                    EndTick([thr[t] EXCEPT !.det = outcome,
                                           !.emitted = PublishesAfter(outcome),
                                           !.mosaic = PublishesAfter(outcome)])]
    /\ UNCHANGED <<selVars, pipeVars, ncap>>

(***************************************************************************)
(* The thread spawn_prefetch() starts.                                     *)
(***************************************************************************)
\* let monitor = MonitorState::get_working()
PfGetWorking(p) ==
    /\ thr[p].pc = "pf_start"
    /\ thr' = [thr EXCEPT ![p] =
                 IF working = << >>
                 THEN [thr[p] EXCEPT !.pc = "pf_end"]
                 ELSE [thr[p] EXCEPT !.pc = "pf_lock_cap", !.mon = working[1]]]
    /\ UNCHANGED <<selVars, pipeVars, ncap>>

\* variant: let _ = CAPTURE_LOCK.lock() drops the guard at once
PfCaptureGuard_dropped(p) == None

\* let _g = CAPTURE_LOCK.lock(): the guard is bound and kept
PfCaptureGuard(p) == p

PfLockCapture(p) ==
    /\ thr[p].pc = "pf_lock_cap"
    /\ captureOwner = None
    /\ captureOwner' = PfCaptureGuard(p)
    /\ thr' = [thr EXCEPT ![p] = [thr[p] EXCEPT !.pc = "ss_begin",
                                     !.acq = Append(thr[p].acq, "CAPTURE_LOCK")]]
    /\ UNCHANGED <<overlayVars, selVars, nfOwner, next_frame, PREFETCHING, working, THREAD,
                   starter, joiner, ncap, nticks, nstart, nstore, ntake, nfStale>>

\* drop(_g) before the frame buffer is locked
GuardBeforeStore(p, owner) == GuardDropped(p, owner)

\* capture_monitor_image returned: Ok drops _g and goes on to store the frame,
\* Err leaves the block, which drops _g
PfCaptured(p) ==
    /\ p \in PrefIds
    /\ thr[p].pc = "ss_ret"
    /\ IF thr[p].res = "ok"
       THEN /\ captureOwner' = GuardBeforeStore(p, captureOwner)
            /\ thr' = [thr EXCEPT ![p] =
                         [LocalInit EXCEPT !.pc = "pf_lock_nf", !.mon = thr[p].mon,
                                           !.res = "ok", !.img = thr[p].img,
                                           !.acq = thr[p].acq,
                                           !.atstop = thr[p].atstop]]
       ELSE /\ captureOwner' = GuardDropped(p, captureOwner)
            /\ thr' = [thr EXCEPT ![p] = [LocalInit EXCEPT !.pc = "pf_end"]]
    /\ UNCHANGED <<overlayVars, selVars, nfOwner, next_frame, PREFETCHING, working, THREAD,
                   starter, joiner, ncap, nticks, nstart, nstore, ntake, nfStale>>

\* next_frame_buf().lock()
PfLockFrame(p) ==
    /\ thr[p].pc = "pf_lock_nf"
    /\ nfOwner = None
    /\ nfOwner' = p
    /\ thr' = [thr EXCEPT ![p] = [thr[p] EXCEPT !.pc = "pf_store",
                                     !.acq = Append(thr[p].acq, "NEXT_FRAME")]]
    /\ UNCHANGED <<overlayVars, selVars, captureOwner, next_frame, PREFETCHING, working,
                   THREAD, starter, joiner, ncap, nticks, nstart, nstore, ntake, nfStale>>

\* *guard = Some(img); the blocks end and every guard still held is dropped
PfStore(p) ==
    /\ thr[p].pc = "pf_store"
    /\ next_frame' = thr[p].img
    /\ nstore' = Counted(nstore)
    /\ nfStale' = thr[p].atstop
    /\ nfOwner' = None
    /\ captureOwner' = GuardDropped(p, captureOwner)
    /\ thr' = [thr EXCEPT ![p] = [LocalInit EXCEPT !.pc = "pf_end"]]
    /\ UNCHANGED <<overlayVars, selVars, PREFETCHING, working, THREAD, starter, joiner,
                   ncap, nticks, nstart, ntake>>

\* variant: the thread ends without clearing the flag
PfEnd_kept(p) ==
    /\ thr[p].pc = "pf_end"
    /\ thr' = [thr EXCEPT ![p] = LocalInit]
    /\ UNCHANGED <<overlayVars, selVars, captureOwner, nfOwner, next_frame, PREFETCHING,
                   working, THREAD, starter, joiner, ncap, nticks, nstart, nstore, ntake,
                   nfStale>>

\* PREFETCHING.store(false); the thread ends
PfEnd(p) ==
    /\ thr[p].pc = "pf_end"
    /\ PREFETCHING' = FALSE
    /\ thr' = [thr EXCEPT ![p] = LocalInit]
    /\ UNCHANGED <<overlayVars, selVars, captureOwner, nfOwner, next_frame, working, THREAD,
                   starter, joiner, ncap, nticks, nstart, nstore, ntake, nfStale>>

\* capture_monitor_image seen from its caller: one call, one result. The
\* steps inside it read and write only the selector and the resource pool,
\* which no step of monitoring/mod.rs reads; SessionSpec takes them one by one.
CaptureMonitorImage(t) ==
    /\ thr[t].pc = "ss_begin"
    /\ \E image \in {NoImage} \cup FramesOf(MonitorInfo(thr[t].mon).width,
                                            MonitorInfo(thr[t].mon).height) :
          thr' = [thr EXCEPT ![t] =
                    [thr[t] EXCEPT !.pc = "ss_ret",
                                   !.res = IF image = NoImage THEN "err" ELSE "ok",
                                   !.img = image]]
    /\ UNCHANGED <<selVars, pipeVars, ncap>>

\* every step of capture_monitor_image
Capture(t) ==
    \/ ScreenShotDirectx(t)
    \/ OptSetup(t)
    \/ OptAcquire(t)
    \/ OptCopy(t)
    \/ StdAttempt(t)
    \/ AltAttempt(t)
    \/ DxExhausted(t)
    \/ ScreenShotCheck(t)
    \/ ScreenShotGdi(t)

\* the steps of cal() in the tick-loop thread t
CalStep(t) ==
    \/ CalGetWorking(t)
    \/ CalLockFrame(t)
    \/ CalTake(t)
    \/ CalLockCapture(t)
    \/ CalCaptured(t)
    \/ CalResult(t)
    \/ CalDetect(t)

\* the steps of the tick-loop thread t
TickStep(t) == LoopCheck(t) \/ CalStep(t)

\* the steps of the prefetch thread p
PrefetchStep(p) ==
    \/ PfGetWorking(p)
    \/ PfLockCapture(p)
    \/ PfCaptured(p)
    \/ PfLockFrame(p)
    \/ PfStore(p)
    \/ PfEnd(p)

(***************************************************************************)
(* Spec: the commands, the tick loops and the prefetch threads, with a     *)
(* capture as one step.                                                    *)
(***************************************************************************)
Next ==
    \/ \E d \in Displays : SetWorkingMonitor(d)
    \/ Run
    \/ StopMonitoring
    \/ StopJoined
    \/ \E t \in TickIds : TickStep(t)
    \/ \E p \in PrefIds : PrefetchStep(p)
    \/ \E t \in TickIds \cup PrefIds : CaptureMonitorImage(t)

Spec == Init /\ [][Next]_vars

(***************************************************************************)
(* SessionSpec: one monitoring session, from the return of                 *)
(* set_working_monitor(d) on: the tick loop and its prefetch threads, with *)
(* every step of each capture.                                             *)
(***************************************************************************)
SessionThread == <<"tick", 1>>

InitSession ==
    /\ capture_state = << >>
    /\ pool = PoolNew
    /\ poolOwner = None
    /\ captureOwner = None
    /\ nfOwner = None
    /\ next_frame = NoImage
    /\ PREFETCHING = FALSE
    /\ working \in { <<d>> : d \in Displays }
    /\ THREAD = SessionThread
    /\ starter = FALSE
    /\ joiner = None
    /\ thr = [t \in Threads |-> IF t = SessionThread
                                THEN [LocalInit EXCEPT !.pc = "loop"]
                                ELSE LocalInit]
    /\ ncap = 0
    /\ nticks = 0
    /\ nstart = 1
    /\ nstore = 0
    /\ ntake = 0
    /\ nfStale = FALSE
    /\ InitOverlay
    /\ streak = [d \in Displays |-> [m \in CaptureMethod |-> 0]]

ThreadStep(t) ==
    \/ t \in TickIds /\ TickStep(t)
    \/ t \in PrefIds /\ PrefetchStep(t)
    \/ Capture(t)

\* the threads of the session: its loop thread and the prefetch threads
SessionThreads == {SessionThread} \cup PrefIds

NextSession == \E t \in SessionThreads : ThreadStep(t)

SessionSpec == InitSession /\ [][NextSession]_vars

\* the scheduler runs every thread that can take a step: a capture returns,
\* and a lock that stays free is granted to a thread that asks for it
Fairness == \A t \in SessionThreads : WF_vars(ThreadStep(t))

FairSessionSpec == SessionSpec /\ Fairness

(***************************************************************************)
(* RestartSpec: the commands, the tick loops and the prefetch threads from *)
(* the return of a first set_working_monitor(d) on, with a capture as one  *)
(* step; the set_working_monitor calls counted are those made from then on. *)
(***************************************************************************)
InitRunning ==
    /\ capture_state = << >>
    /\ pool = PoolNew
    /\ poolOwner = None
    /\ captureOwner = None
    /\ nfOwner = None
    /\ next_frame = NoImage
    /\ PREFETCHING = FALSE
    /\ working \in { <<d>> : d \in Displays }
    /\ THREAD = SessionThread
    /\ starter = FALSE
    /\ joiner = None
    /\ thr = [t \in Threads |-> IF t = SessionThread
                                THEN [LocalInit EXCEPT !.pc = "loop"]
                                ELSE LocalInit]
    /\ ncap = 0
    /\ nticks = 0
    /\ nstart = 0
    /\ nstore = 0
    /\ ntake = 0
    /\ nfStale = FALSE
    /\ InitOverlay
    /\ streak = [d \in Displays |-> [m \in CaptureMethod |-> 0]]

RestartSpec == InitRunning /\ [][Next]_vars

(***************************************************************************)
(* StopSpec: one monitoring session and the stop_monitoring call that ends *)
(* it, with a capture as one step: the loop thread, its prefetch threads,  *)
(* and no further set_working_monitor.                                     *)
(***************************************************************************)
StopStep(t) ==
    \/ t \in TickIds /\ TickStep(t)
    \/ t \in PrefIds /\ PrefetchStep(t)
    \/ CaptureMonitorImage(t)

NextStop ==
    \/ StopMonitoring
    \/ StopJoined
    \/ \E t \in SessionThreads : StopStep(t)

StopSpec == InitSession /\ [][NextStop]_vars

\* the scheduler runs every thread that can take a step: a capture returns,
\* and a lock that stays free is granted to a thread that asks for it; the
\* stop is made or not
StopFairness == \A t \in SessionThreads : WF_vars(StopStep(t))

FairStopSpec == StopSpec /\ StopFairness

(***************************************************************************)
(* LoopSpec: one monitoring session that is never stopped, its iterations  *)
(* not counted, with a capture as one step.                                *)
(***************************************************************************)
LoopStep(t) ==
    \/ t \in TickIds /\ (LoopForever(t) \/ CalStep(t))
    \/ t \in PrefIds /\ PrefetchStep(t)
    \/ CaptureMonitorImage(t)

NextLoop == \E t \in SessionThreads : LoopStep(t)

LoopSpec == InitSession /\ [][NextLoop]_vars

\* the scheduler runs every thread that can take a step; the sleep, the
\* captures and the Detector return
LoopFairness == \A t \in SessionThreads : WF_vars(LoopStep(t))

FairLoopSpec == LoopSpec /\ LoopFairness

(***************************************************************************)
(* MapSpec: the Ok arm of cal() from the downscale to apply_mosaic, for    *)
(* one tick that holds a frame: downscale, Detector, mapping back,         *)
(* emit_frame_info, mask enlargement.  Only the sizes of the buffers are   *)
(* kept, so that a 1920 x 1080 frame can stand beside the small ones.      *)
(***************************************************************************)
\* the mosaic_scale settings told apart: 0.5, 1.0, 1.25, 1.5
MosaicScales == {50, 100, 125, 150}

FrameSizes ==
    { <<MonitorInfo(d).width, MonitorInfo(d).height>> : d \in Displays }
    \cup { <<1920, 1080>> }

\* the regions a Detector answer is made of: every region inside a small
\* buffer; for a large one a face, the whole buffer, and an odd-sized
\* region in the far corner
RectsIn(w, h) ==
    IF w <= 8 /\ h <= 8
    THEN { Rect(x, y, rw, rh) : x \in 0..(w - 1), y \in 0..(h - 1),
                                rw \in 1..w, rh \in 1..h }
           \cap { r \in [x : 0..w, y : 0..h, width : 1..w, height : 1..h] :
                    r.x + r.width <= w /\ r.y + r.height <= h }
    ELSE { Rect(100, 100, 40, 40), Rect(0, 0, w, h), Rect(w - 7, h - 9, 7, 9) }

DetectorAnswers(dsize) ==
    UNION { [1..n -> RectsIn(dsize[1], dsize[2])] : n \in 0..MaxRects }

InitMap ==
    /\ capture_state = << >>
    /\ pool = PoolNew
    /\ poolOwner = None
    /\ captureOwner = None
    /\ nfOwner = None
    /\ next_frame = NoImage
    /\ PREFETCHING = FALSE
    /\ working \in { <<d>> : d \in Displays }
    /\ THREAD = SessionThread
    /\ starter = FALSE
    /\ joiner = None
    /\ \E size \in FrameSizes :
          thr = [t \in Threads |->
                   IF t = SessionThread
                   THEN [MapLocal EXCEPT !.pc = "cal_detect", !.mon = working[1],
                                          !.res = "ok", !.size = size]
                   ELSE LocalInit]
    /\ ncap = 0
    /\ nticks = 1
    /\ nstart = 1
    /\ nstore = 0
    /\ ntake = 0
    /\ nfStale = FALSE
    /\ InitOverlay
    /\ streak = [d \in Displays |-> [m \in CaptureMethod |-> 0]]

\* read capture_scale; build detection_image
MapDownscale(t) ==
    /\ thr[t].pc = "cal_detect"
    /\ \E capture_scale \in CaptureScales :
          thr' = [thr EXCEPT ![t] =
                    [thr[t] EXCEPT !.pc = "det_call", !.cs = capture_scale,
                                   !.dsize = DetSize(thr[t].size, capture_scale)]]
    /\ UNCHANGED <<selVars, pipeVars, ncap>>

\* faces::detect_targets_or_all_faces(&detection_image): Ok(rects) or Err(e)
MapDetect(t) ==
    /\ thr[t].pc = "det_call"
    /\ \/ \E rects \in DetectorAnswers(thr[t].dsize) :
             thr' = [thr EXCEPT ![t] =
                       [thr[t] EXCEPT !.pc = "det_map", !.det = "ok",
                                      !.rects = rects]]
       \/ thr' = [thr EXCEPT ![t] = [thr[t] EXCEPT !.pc = "det_done", !.det = "err"]]
    /\ UNCHANGED <<selVars, pipeVars, ncap>>

\* mapped_rects and emit_frame_info(mapped_rects.clone())
MapBack(t) ==
    /\ thr[t].pc = "det_map"
    /\ thr' = [thr EXCEPT ![t] =
                 [thr[t] EXCEPT !.pc = "det_mosaic", !.emitted = TRUE,
                                !.mapped = MapRects(thr[t].rects,
                                                    resize_ratio(thr[t].cs))]]
    /\ UNCHANGED <<selVars, pipeVars, ncap>>

\* read mosaic_scale; apply_mosaic(mapped_rects, mosaic_scale, ..) builds the masks
MapMosaic(t) ==
    /\ thr[t].pc = "det_mosaic"
    /\ \E mosaic_scale \in MosaicScales :
          thr' = [thr EXCEPT ![t] =
                    [thr[t] EXCEPT !.pc = "det_done", !.mosaic = TRUE,
                                   !.ms = mosaic_scale,
                                   !.mosaics = Mosaics(thr[t].mapped, mosaic_scale)]]
    /\ UNCHANGED <<selVars, pipeVars, ncap>>

NextMap ==
    \/ MapDownscale(SessionThread)
    \/ MapDetect(SessionThread)
    \/ MapBack(SessionThread)
    \/ MapMosaic(SessionThread)

MapSpec == InitMap /\ [][NextMap]_vars

(***************************************************************************)
(* RenderSpec: the commands, the tick loops and the publisher thread of    *)
(* overlay.rs from the return of a first set_working_monitor(d) on.  How   *)
(* cal() gets its frame is one step: those steps read and write only       *)
(* NEXT_FRAME, PREFETCHING and the capture state, which overlay.rs does    *)
(* not read.  A payload is known by its seq.                               *)
(***************************************************************************)
\* cal() from next_frame_buf().lock() to the frame of this tick, or to the
\* return on a failed capture
CalFrame(t) ==
    /\ thr[t].pc = "cal_lock_nf"
    /\ \E got \in BOOLEAN :
          thr' = [thr EXCEPT ![t] =
                    IF got
                    THEN [thr[t] EXCEPT !.pc = "cal_detect", !.res = "ok"]
                    ELSE EndTick([thr[t] EXCEPT !.res = "err"])]
    /\ UNCHANGED <<selVars, pipeVars, ncap>>

\* the model-ready test and the Detector call; in the Ok arm
\* emit_frame_info(mapped_rects) and the call of apply_mosaic
CalDetectRects(t) ==
    /\ thr[t].pc = "cal_detect"
    /\ \E outcome \in DetectOutcomes :
          thr' = [thr EXCEPT ![t] =
                    IF PublishesAfter(outcome)
                    THEN [thr[t] EXCEPT !.pc = "apply_mosaic", !.det = outcome,
                                        !.emitted = TRUE]
                    ELSE EndTick([thr[t] EXCEPT !.det = outcome])]
    /\ UNCHANGED <<selVars, pipeVars, ncap>>

\* apply_mosaic up to the payload: the masks, then
\* seq = SEQ.fetch_add(1, Ordering::SeqCst) + 1, and ts
apply_mosaic(t) ==
    /\ thr[t].pc = "apply_mosaic"
    /\ overlay' = [overlay EXCEPT !.SEQ = @ + 1]
    /\ thr' = [thr EXCEPT ![t] =
                 With([thr[t] EXCEPT !.pc = "set_latest"], [seq |-> SEQ + 1])]
    /\ UNCHANGED <<selVars, monVars, ncap>>

\* set_latest(&payload)
set_latest(t) ==
    /\ thr[t].pc = "set_latest"
    /\ overlay' = [overlay EXCEPT !.LATEST_MOSAIC = thr[t].seq]
    /\ thr' = [thr EXCEPT ![t] = [thr[t] EXCEPT !.pc = "set_latest_for_emit"]]
    /\ UNCHANGED <<selVars, monVars, ncap>>

\* set_latest_for_emit(&payload): lock MOSAIC_EMIT_BUF, *guard = Some(payload)
set_latest_for_emit(t) ==
    /\ thr[t].pc = "set_latest_for_emit"
    /\ overlay' = [overlay EXCEPT !.MOSAIC_EMIT_BUF = thr[t].seq,
                                  !.published = Append(@, thr[t].seq)]
    /\ thr' = [thr EXCEPT ![t] = [thr[t] EXCEPT !.pc = "spawn_emit_thread_once"]]
    /\ UNCHANGED <<selVars, monVars, ncap>>

\* spawn_emit_thread_once(); apply_mosaic and cal() return
spawn_emit_thread_once(t) ==
    /\ thr[t].pc = "spawn_emit_thread_once"
    /\ overlay' = [overlay EXCEPT !.MOSAIC_EMIT_THREAD = TRUE]
    /\ thr' = [thr EXCEPT ![t] = EndTick([thr[t] EXCEPT !.mosaic = TRUE])]
    /\ UNCHANGED <<selVars, monVars, ncap>>

\* the publisher after its sleep: lock MOSAIC_EMIT_BUF, guard.take(), unlock;
\* on None it sleeps again
EmitTake ==
    /\ MOSAIC_EMIT_THREAD
    /\ emit.pc = "sleep"
    /\ MOSAIC_EMIT_BUF # 0
    /\ overlay' = [overlay EXCEPT
                      !.emit = [pc |-> "emit", payload |-> MOSAIC_EMIT_BUF,
                                at |-> Len(published)],
                      !.MOSAIC_EMIT_BUF = 0]
    /\ UNCHANGED <<selVars, monVars, thr, ncap>>

\* emit("mosaic-update", payload), outside the lock; then the next sleep
EmitForward ==
    /\ emit.pc = "emit"
    /\ overlay' = [overlay EXCEPT
                      !.forwarded = Append(@, [seq |-> emit.payload,
                                               at |-> emit.at]),
                      !.emit = [pc |-> "sleep", payload |-> 0, at |-> 0]]
    /\ UNCHANGED <<selVars, monVars, thr, ncap>>

\* the steps of the tick-loop thread t, apply_mosaic step by step
RenderStep(t) ==
    \/ LoopCheck(t)
    \/ CalGetWorking(t)
    \/ CalFrame(t)
    \/ CalDetectRects(t)
    \/ apply_mosaic(t)
    \/ set_latest(t)
    \/ set_latest_for_emit(t)
    \/ spawn_emit_thread_once(t)

NextRender ==
    \/ \E d \in Displays : SetWorkingMonitor(d)
    \/ Run
    \/ StopMonitoring
    \/ StopJoined
    \/ \E t \in TickIds : RenderStep(t)
    \/ EmitTake
    \/ EmitForward

RenderSpec == InitRunning /\ [][NextRender]_vars

(***************************************************************************)
(* ClampSpec: run() reads the configured interval and its loop sleeps for  *)
(* the clamped one.  The configured values are those near 0 and near 1000  *)
(* and two large ones; interval is a u64 and is never negative.           *)
(***************************************************************************)
Intervals ==
    (0..MaxNear) \cup ((1000 - MaxNear)..(1000 + MaxNear))
        \cup {60000, 2147483647}

\* variant: no lower limit
clamp_interval_nomin(cfg_interval) ==
    IF cfg_interval < 1000 THEN cfg_interval ELSE 1000

\* if cfg_interval < 8 { 8 } else { cfg_interval.min(1000) }
clamp_interval(cfg_interval) ==
    IF cfg_interval < 8 THEN 8
    ELSE IF cfg_interval < 1000 THEN cfg_interval ELSE 1000

\* the thread-local state with the locals of run() and of its loop
ClampLocal ==
    With(LocalInit,
         [cfg_interval |-> 0,  \* monitoring.interval as configured
          interval |-> 0,      \* the interval the loop closure captures
          slept |-> 0])        \* history: the length of the last sleep

InitClamp ==
    /\ capture_state = << >>
    /\ pool = PoolNew
    /\ poolOwner = None
    /\ captureOwner = None
    /\ nfOwner = None
    /\ next_frame = NoImage
    /\ PREFETCHING = FALSE
    /\ working \in { <<d>> : d \in Displays }
    /\ THREAD = None
    /\ starter = TRUE
    /\ joiner = None
    /\ \E c \in Intervals :
          thr = [t \in Threads |->
                   IF t = SessionThread
                   THEN [ClampLocal EXCEPT !.pc = "run", !.cfg_interval = c]
                   ELSE LocalInit]
    /\ ncap = 0
    /\ nticks = 0
    /\ nstart = 0
    /\ nstore = 0
    /\ ntake = 0
    /\ nfStale = FALSE
    /\ InitOverlay
    /\ streak = [d \in Displays |-> [m \in CaptureMethod |-> 0]]

\* run(): the interval is computed and the loop thread is spawned with it
ClampRun ==
    /\ thr[SessionThread].pc = "run"
    /\ starter
    /\ starter' = FALSE
    /\ THREAD' = SessionThread
    /\ thr' = [thr EXCEPT ![SessionThread] =
                 [thr[SessionThread] EXCEPT
                    !.pc = "loop",
                    !.interval = clamp_interval(thr[SessionThread].cfg_interval)]]
    /\ UNCHANGED <<selVars, overlayVars, captureOwner, nfOwner, next_frame,
                   PREFETCHING, working, joiner, ncap, nticks, nstart, nstore,
                   ntake, nfStale>>

\* one iteration: is_working_set(), cal(), sleep(interval)
ClampTick ==
    /\ thr[SessionThread].pc = "loop"
    /\ working # << >>
    /\ nticks < MaxTicks
    /\ nticks' = nticks + 1
    /\ thr' = [thr EXCEPT ![SessionThread] =
                 [thr[SessionThread] EXCEPT
                    !.slept = thr[SessionThread].interval]]
    /\ UNCHANGED <<selVars, overlayVars, captureOwner, nfOwner, next_frame,
                   PREFETCHING, working, THREAD, starter, joiner, ncap, nstart,
                   nstore, ntake, nfStale>>

NextClamp == ClampRun \/ ClampTick

ClampSpec == InitClamp /\ [][NextClamp]_vars

(***************************************************************************)
(* ScaleSpec: cal() builds detection_image from a frame whose pixels all   *)
(* differ (pixel k has the grey level k), for every capture_scale told     *)
(* apart.  The frames are all those up to MaxSide x MaxSide and two on     *)
(* which the ratios 0.05 and 0.1 give buffers of different sizes.          *)
(***************************************************************************)
ScaleSizes ==
    { <<w, h>> : w \in 1..MaxSide, h \in 1..MaxSide } \cup { <<15, 1>>, <<20, 10>> }

ScaleFrame(w, h) ==
    [width |-> w, height |-> h,
     data |-> [i \in 1..buffer_size(w, h) |->
                 IF i % 4 = 0 THEN 255 ELSE ((i - 1) \div 4) + 1]]

\* the thread-local state with capture_scale and detection_image
ScaleLocal ==
    With(LocalInit,
         [cs |-> 0,            \* capture_scale as read by this tick
          dimg |-> NoImage])   \* detection_image

InitScale ==
    /\ capture_state = << >>
    /\ pool = PoolNew
    /\ poolOwner = None
    /\ captureOwner = None
    /\ nfOwner = None
    /\ next_frame = NoImage
    /\ PREFETCHING = FALSE
    /\ working \in { <<d>> : d \in Displays }
    /\ THREAD = SessionThread
    /\ starter = FALSE
    /\ joiner = None
    /\ \E size \in ScaleSizes :
          thr = [t \in Threads |->
                   IF t = SessionThread
                   THEN [ScaleLocal EXCEPT !.pc = "cal_detect", !.mon = working[1],
                                           !.res = "ok",
                                           !.img = ScaleFrame(size[1], size[2])]
                   ELSE LocalInit]
    /\ ncap = 0
    /\ nticks = 1
    /\ nstart = 0
    /\ nstore = 0
    /\ ntake = 0
    /\ nfStale = FALSE
    /\ InitOverlay
    /\ streak = [d \in Displays |-> [m \in CaptureMethod |-> 0]]

\* read capture_scale; build detection_image
ScaleDownscale(t) ==
    /\ thr[t].pc = "cal_detect"
    /\ \E capture_scale \in CaptureScales :
          thr' = [thr EXCEPT ![t] =
                    [thr[t] EXCEPT !.pc = "det_call", !.cs = capture_scale,
                                   !.dimg = detection_image(thr[t].img,
                                                            capture_scale)]]
    /\ UNCHANGED <<selVars, pipeVars, ncap>>

NextScale == ScaleDownscale(SessionThread)

ScaleSpec == InitScale /\ [][NextScale]_vars

(***************************************************************************)
(* RetrySpec: one screen_shot call with the loops of the three DirectX     *)
(* backends step by step: every DuplicateOutput and AcquireNextFrame call  *)
(* is a step with its outcome, and the locals count the calls made.        *)
(***************************************************************************)
\* variant: every backend asks five times for the duplication
MAX_RETRIES_same(method) == 5

\* const MAX_RETRIES of the three backends
MAX_RETRIES(method) ==
    CASE method = "Optimized" -> 5
      [] method = "Standard" -> 3
      [] method = "Alternative" -> 5

MAX_FRAME_ATTEMPTS == 10

\* the timeout, in ms, the backend gives AcquireNextFrame
AcquireTimeout(method) ==
    CASE method = "Optimized" -> 250
      [] method = "Standard" -> 300
      [] method = "Alternative" -> 1000

\* the thread-local state with the loop counters of a backend and the
\* history of its calls
RetryLocal ==
    With(LocalInit,
         [retry_count |-> 0,
          frame_attempts |-> 0,
          dups |-> [m \in CaptureMethod |-> 0],   \* DuplicateOutput calls made
          acqs |-> [m \in CaptureMethod |-> 0],   \* AcquireNextFrame calls made
          timeout |-> 0])      \* the longest timeout given to AcquireNextFrame

InitRetry ==
    /\ capture_state \in
          {<< >>} \cup { [d \in {k} |-> [CaptureStatsDefault EXCEPT !.preferred = m]] :
                            k \in Displays, m \in CaptureMethod }
    /\ pool = PoolNew
    /\ poolOwner = None
    /\ captureOwner = None
    /\ nfOwner = None
    /\ next_frame = NoImage
    /\ PREFETCHING = FALSE
    /\ working = << >>
    /\ THREAD = None
    /\ starter = FALSE
    /\ joiner = None
    /\ \E d \in Displays :
          thr = [t \in Threads |->
                   IF t = Main THEN [RetryLocal EXCEPT !.pc = "ss_begin", !.mon = d]
                   ELSE LocalInit]
    /\ ncap = 1
    /\ nticks = 0
    /\ nstart = 0
    /\ nstore = 0
    /\ ntake = 0
    /\ nfStale = FALSE
    /\ InitOverlay
    /\ streak = [d \in Displays |-> [m \in CaptureMethod |-> 0]]

\* the backend returned image (NoImage: Err) with the locals l
RetryRecord(t, l, method, image) ==
    LET ok == image # NoImage /\ IsValid(image)
    IN /\ capture_state' = record_result(capture_state, l.mon, method, ok)
       /\ streak' = [streak EXCEPT ![l.mon][method] = IF ok THEN @ + 1 ELSE 0]
       /\ thr' = [thr EXCEPT ![t] = AfterAttempt(l, method, image, ok)]

\* the backend up to its retry loop: factory, adapter and output match,
\* device (Standard, Alternative), cast to IDXGIOutput1
RetryOutput(t) ==
    /\ \/ thr[t].pc = "opt_acquire"
       \/ Trying(t, "Standard")
       \/ Trying(t, "Alternative")
    /\ LET method == Head(thr[t].order)
       IN \/ RetryRecord(t, thr[t], method, NoImage)
          \/ /\ thr' = [thr EXCEPT ![t] = [@ EXCEPT !.pc = "dup", !.retry_count = 0]]
             /\ UNCHANGED <<capture_state, streak>>
    /\ UNCHANGED <<pool, poolOwner, pipeVars, ncap>>

\* one turn of while duplication.is_none() && retry_count < MAX_RETRIES
RetryDuplicate(t) ==
    /\ thr[t].pc = "dup"
    /\ LET method == Head(thr[t].order)
           called == [thr[t] EXCEPT !.dups[method] = @ + 1]
           failed == [called EXCEPT !.retry_count = @ + 1]
       IN /\ thr[t].retry_count < MAX_RETRIES(method)
          /\ \/ /\ thr' = [thr EXCEPT ![t] =
                              [called EXCEPT !.pc = "acquire", !.frame_attempts = 0]]
                /\ UNCHANGED <<capture_state, streak>>
             \/ IF failed.retry_count >= MAX_RETRIES(method)
                THEN RetryRecord(t, failed, method, NoImage)
                ELSE /\ thr' = [thr EXCEPT ![t] = failed]
                     /\ UNCHANGED <<capture_state, streak>>
    /\ UNCHANGED <<pool, poolOwner, pipeVars, ncap>>

\* Optimized, Standard: the one AcquireNextFrame call
RetryAcquire(t) ==
    /\ thr[t].pc = "acquire"
    /\ Head(thr[t].order) \in {"Optimized", "Standard"}
    /\ LET method == Head(thr[t].order)
           called == [thr[t] EXCEPT !.acqs[method] = @ + 1,
                                    !.timeout = Max(@, AcquireTimeout(method))]
       IN \/ RetryRecord(t, called, method, NoImage)
          \/ /\ thr' = [thr EXCEPT ![t] =
                           [called EXCEPT !.pc = IF method = "Optimized"
                                                 THEN "opt_copy" ELSE "copy"]]
             /\ UNCHANGED <<capture_state, streak>>
    /\ UNCHANGED <<pool, poolOwner, pipeVars, ncap>>

\* Alternative: one turn of while frame_attempts < MAX_FRAME_ATTEMPTS
RetryAcquireAccumulated(t) ==
    /\ thr[t].pc = "acquire"
    /\ Head(thr[t].order) = "Alternative"
    /\ thr[t].frame_attempts < MAX_FRAME_ATTEMPTS
    /\ LET called == [thr[t] EXCEPT !.acqs["Alternative"] = @ + 1,
                                    !.timeout = Max(@, AcquireTimeout("Alternative"))]
           again == [called EXCEPT !.frame_attempts = @ + 1]
       IN \/ /\ thr' = [thr EXCEPT ![t] = [called EXCEPT !.pc = "copy"]]
             /\ UNCHANGED <<capture_state, streak>>
          \/ IF again.frame_attempts >= MAX_FRAME_ATTEMPTS
             THEN RetryRecord(t, again, "Alternative", NoImage)
             ELSE /\ thr' = [thr EXCEPT ![t] = again]
                  /\ UNCHANGED <<capture_state, streak>>
    /\ UNCHANGED <<pool, poolOwner, pipeVars, ncap>>

\* Standard, Alternative: staging texture, Map, the rows copied, ReleaseFrame
RetryCopy(t) ==
    /\ thr[t].pc = "copy"
    /\ \E image \in {NoImage} \cup FramesOf(MonitorInfo(thr[t].mon).width,
                                            MonitorInfo(thr[t].mon).height) :
          RetryRecord(t, thr[t], Head(thr[t].order), image)
    /\ UNCHANGED <<pool, poolOwner, pipeVars, ncap>>

NextRetry ==
    \/ ScreenShotDirectx(Main)
    \/ OptSetup(Main)
    \/ RetryOutput(Main)
    \/ RetryDuplicate(Main)
    \/ RetryAcquire(Main)
    \/ RetryAcquireAccumulated(Main)
    \/ OptCopy(Main)
    \/ RetryCopy(Main)
    \/ DxExhausted(Main)
    \/ ScreenShotCheck(Main)
    \/ ScreenShotGdi(Main)

RetrySpec == InitRetry /\ [][NextRetry]_vars

\* the calling thread is scheduled, and every system call returns
FairRetrySpec == RetrySpec /\ WF_vars(NextRetry)

(***************************************************************************)
(* OrderSpec: one monitoring session that is never stopped, with a capture *)
(* as one step.  Every frame carries the number of its capture (captures   *)
(* are made one at a time, under CAPTURE_LOCK), and the numbers of the     *)
(* frames given to the Detector are kept in the order of the ticks.        *)
(***************************************************************************)
\* capture_monitor_image seen from its caller, the frame numbered
OrderCapture(t) ==
    /\ thr[t].pc = "ss_begin"
    /\ ncap < MaxOrder
    /\ ncap' = ncap + 1
    /\ \E image \in {NoImage} \cup FramesOf(MonitorInfo(thr[t].mon).width,
                                            MonitorInfo(thr[t].mon).height) :
          thr' = [thr EXCEPT ![t] =
                    [thr[t] EXCEPT !.pc = "ss_ret",
                                   !.res = IF image = NoImage THEN "err" ELSE "ok",
                                   !.img = IF image = NoImage THEN NoImage
                                           ELSE With(image, [seq |-> ncap'])]]
    /\ UNCHANGED <<selVars, pipeVars>>

\* the model-ready test and the Detector call on the frame of this tick, as
\* in CalDetect; the number of a frame the Detector is called on is appended
\* to the history
OrderDetect(t) ==
    /\ thr[t].pc = "cal_detect"
    /\ \E outcome \in DetectOutcomes :
          /\ thr' = [thr EXCEPT ![t] =
                       EndTick([thr[t] EXCEPT !.det = outcome,
                                              !.emitted = PublishesAfter(outcome),
                                              !.mosaic = PublishesAfter(outcome)])]
          /\ overlay' = IF outcome = "skip" THEN overlay
                        ELSE [overlay EXCEPT !.detected = Append(@, thr[t].img.seq)]
    /\ UNCHANGED <<selVars, monVars, ncap>>

InitOrder ==
    /\ capture_state = << >>
    /\ pool = PoolNew
    /\ poolOwner = None
    /\ captureOwner = None
    /\ nfOwner = None
    /\ next_frame = NoImage
    /\ PREFETCHING = FALSE
    /\ working \in { <<d>> : d \in Displays }
    /\ THREAD = SessionThread
    /\ starter = FALSE
    /\ joiner = None
    /\ thr = [t \in Threads |-> IF t = SessionThread
                                THEN [LocalInit EXCEPT !.pc = "loop"]
                                ELSE LocalInit]
    /\ ncap = 0
    /\ nticks = 0
    /\ nstart = 1
    /\ nstore = 0
    /\ ntake = 0
    /\ nfStale = FALSE
    /\ overlay = [SEQ |-> 0, LATEST_MOSAIC |-> 0, MOSAIC_EMIT_BUF |-> 0,
                  MOSAIC_EMIT_THREAD |-> FALSE,
                  emit |-> [pc |-> "sleep", payload |-> 0, at |-> 0],
                  published |-> << >>, forwarded |-> << >>,
                  detected |-> << >>]   \* history: the capture numbers of the
                                        \* frames given to the Detector
    /\ streak = [d \in Displays |-> [m \in CaptureMethod |-> 0]]

OrderStep(t) ==
    \/ /\ t \in TickIds
       /\ \/ LoopForever(t)
          \/ CalGetWorking(t)
          \/ CalLockFrame(t)
          \/ CalTake(t)
          \/ CalLockCapture(t)
          \/ CalCaptured(t)
          \/ CalResult(t)
          \/ OrderDetect(t)
    \/ t \in PrefIds /\ PrefetchStep(t)
    \/ OrderCapture(t)

NextOrder == \E t \in SessionThreads : OrderStep(t)

OrderSpec == InitOrder /\ [][NextOrder]_vars

(***************************************************************************)
(* Properties of the pipeline: prefetch, locks, capture.                   *)
(***************************************************************************)
PipeThreads == TickIds \cup PrefIds

\* the prefetch threads that have been spawned and have not yet cleared the flag
InFlight == {p \in PrefIds : thr[p].pc # "idle"}

IsPrefix(s, r) == Len(s) <= Len(r) /\ SubSeq(r, 1, Len(s)) = s

\* C1: at most one prefetch is in flight, and while one is in flight the flag
\* is set; a step taken while the flag is set (a spawn_prefetch() call among
\* them) puts no further prefetch thread, hence no further capture, in flight.
Thm_C1_SinglePrefetch ==
    [][ /\ Cardinality(InFlight') <= 1
        /\ InFlight' # {} => PREFETCHING'
        /\ PREFETCHING => InFlight' \subseteq InFlight ]_vars

\* a second spawn_prefetch() call has returned without spawning while the
\* first prefetch is still in flight
Wit_C1_SecondCallNoOp ==
    \E t \in TickIds :
        /\ thr[t].pc = "cal_detect" /\ ~thr[t].spawned
        /\ PREFETCHING /\ Cardinality(InFlight) = 1

\* C2 as stated: whoever holds the frame-buffer lock has acquired and released
\* CAPTURE_LOCK before it, nobody asks for CAPTURE_LOCK after having locked the
\* frame buffer, and nobody holds both.
CE_C2_CaptureLockFirst ==
    \A t \in PipeThreads :
        /\ nfOwner = t => /\ thr[t].acq = <<"CAPTURE_LOCK", "NEXT_FRAME">>
                          /\ captureOwner # t
        /\ thr[t].pc \in {"cal_lock_cap", "pf_lock_cap"}
              => \A i \in 1..Len(thr[t].acq) : thr[t].acq[i] # "NEXT_FRAME"
        /\ ~(captureOwner = t /\ nfOwner = t)

\* C2, amended: the prefetch thread acquires and releases CAPTURE_LOCK before
\* it locks the frame buffer; cal() locks the frame buffer first and has
\* released it when it asks for CAPTURE_LOCK; no thread asks for one of the two
\* locks while it holds the other, and no thread holds both.
Thm_C2_LockDiscipline ==
    \A t \in PipeThreads :
        /\ t \in PrefIds => IsPrefix(thr[t].acq, <<"CAPTURE_LOCK", "NEXT_FRAME">>)
        /\ t \in TickIds => IsPrefix(thr[t].acq, <<"NEXT_FRAME", "CAPTURE_LOCK">>)
        /\ thr[t].pc \in {"cal_lock_cap", "pf_lock_cap"} => nfOwner # t
        /\ thr[t].pc \in {"cal_lock_nf", "pf_lock_nf"} => captureOwner # t
        /\ ~(captureOwner = t /\ nfOwner = t)

\* cal() captures synchronously under CAPTURE_LOCK after it has locked and
\* released the frame buffer
Wit_C2_TickCapturesAfterTake ==
    \E t \in TickIds :
        /\ captureOwner = t /\ nfOwner # t
        /\ thr[t].acq = <<"NEXT_FRAME", "CAPTURE_LOCK">>

\* the lock a thread is asking for at its position
Requesting(t) ==
    IF thr[t].pc \in {"cal_lock_nf", "pf_lock_nf"} THEN "NEXT_FRAME"
    ELSE IF thr[t].pc \in {"cal_lock_cap", "pf_lock_cap"} THEN "CAPTURE_LOCK"
    ELSE IF Trying(t, "Optimized") \/ thr[t].pc = "opt_copy" THEN "DIRECTX_MANAGER"
    ELSE "none"

OwnerOf(lock) ==
    CASE lock = "NEXT_FRAME" -> nfOwner
      [] lock = "CAPTURE_LOCK" -> captureOwner
      [] lock = "DIRECTX_MANAGER" -> poolOwner
      [] OTHER -> None

\* t asks for a lock that some thread holds
Blocked(t) == Requesting(t) # "none" /\ OwnerOf(Requesting(t)) # None

NoWaitCycle ==
    ~ \E S \in (SUBSET PipeThreads) \ {{}} :
         \A t \in S : Blocked(t) /\ OwnerOf(Requesting(t)) \in S

\* C3: no set of threads waits in a circle for locks its members hold, and
\* (the scheduler being fair and captures returning) every thread that asks
\* for CAPTURE_LOCK, NEXT_FRAME or the resource-pool mutex gets past the request.
\* ("asking leads to not asking" is written in its equivalent form "again and
\* again not asking": P ~> ~P is [](P => <>~P), which is []<>~P.)
Thm_C3_DeadlockFree ==
    /\ []NoWaitCycle
    /\ \A t \in SessionThreads : []<>(Requesting(t) = "none")

\* the tick loop waits for CAPTURE_LOCK, whose holder is a prefetch thread
\* that is itself asking for the resource-pool mutex
Wit_C3_WaitsOnRequester ==
    \E t \in TickIds, p \in PrefIds :
        /\ thr[t].pc = "cal_lock_cap" /\ captureOwner = p
        /\ Requesting(p) = "DIRECTX_MANAGER"

\* C4: at most one thread is inside capture_monitor_image, and a thread that
\* is inside it, from the call to the use of the result, holds CAPTURE_LOCK.
Thm_C4_CaptureExclusive ==
    /\ \A t, u \in PipeThreads :
          (thr[t].pc \in InCapturePcs /\ thr[u].pc \in InCapturePcs) => t = u
    /\ \A t \in PipeThreads :
          thr[t].pc \in InCapturePcs \cup {"ss_ret"} => captureOwner = t

\* a prefetch thread is copying the frame out of the staging texture while
\* the tick loop, with no prefetched frame to take, waits for CAPTURE_LOCK
Wit_C4_TickWaitsForPrefetch ==
    \E t \in TickIds, p \in PrefIds :
        /\ thr[p].pc = "opt_copy" /\ captureOwner = p
        /\ thr[t].pc = "cal_lock_cap"

(***************************************************************************)
(* Properties of the method selector and of one capture attempt.           *)
(***************************************************************************)
Rank(m) == CASE m = "Optimized" -> 1 [] m = "Standard" -> 2 [] m = "Alternative" -> 3

StoredPreferred(d) == StatsOf(capture_state, d).preferred

MethodsTried(l) == [i \in 1..Len(l.tried) |-> l.tried[i].method]

InDxLoop(l) == l.pc \in {"dx_loop", "opt_acquire", "opt_copy"}

InAttempt(l) == l.pc \in {"dx_loop", "opt_acquire", "opt_copy", "ss_check", "gdi", "ss_ret"}

\* the methods whose counter has reached the threshold
Reached(entry) == {m \in CaptureMethod : CounterOf(entry, m) >= SUCCESS_THRESHOLD}

Highest(S) == CHOOSE m \in S : \A o \in S : Rank(m) <= Rank(o)

\* C14: the frame buffer holds one frame or none; a store replaces whatever
\* the buffer holds by the stored frame; a take leaves the buffer empty and
\* hands the frame it held to the taking tick alone; only the holder of the
\* buffer's lock changes the buffer; so at any time no more frames have been
\* taken than stored, and a frame in the buffer is one not yet taken (the
\* counts are those of the first MaxFrames frames).
Thm_C14_SingleSlot ==
    [][ /\ ntake' <= nstore'
        /\ next_frame' # NoImage /\ nstore' < MaxFrames => ntake' < nstore'
        /\ next_frame' # next_frame => nfOwner \in PipeThreads
        /\ \A p \in PrefIds :
              thr[p].pc = "pf_store" /\ thr'[p].pc # "pf_store" =>
                 /\ next_frame' = thr[p].img
                 /\ nstore' = Counted(nstore) /\ ntake' = ntake
        /\ \A t \in TickIds :
              thr[t].pc = "cal_take" /\ thr'[t].pc # "cal_take" =>
                 /\ next_frame' = NoImage
                 /\ nstore' = nstore
                 /\ IF next_frame # NoImage
                    THEN /\ thr'[t].img = next_frame /\ thr'[t].src = "prefetch"
                         /\ ntake' = Counted(ntake)
                         /\ \A u \in PipeThreads \ {t} : thr'[u] = thr[u]
                    ELSE /\ thr'[t].img = NoImage /\ ntake' = ntake ]_vars

\* a tick is processing the frame it took out of the buffer, and the next
\* prefetch has already stored another frame
Wit_C14_TakenThenStored ==
    \E t \in TickIds :
        /\ thr[t].pc = "cal_detect" /\ thr[t].src = "prefetch"
        /\ thr[t].img # NoImage
        /\ nstore = 2 /\ ntake = 1
        /\ next_frame # NoImage

\* C15: a tick takes the buffered frame if there is one and captures
\* synchronously only if there is none; once it has a frame its next step is
\* the call of spawn_prefetch(); the Detector is called only by a tick that
\* has a frame and has already called spawn_prefetch().
Thm_C15_TickOrder ==
    [][ \A t \in TickIds :
          /\ thr[t].pc = "cal_take" /\ thr'[t].pc # "cal_take" =>
                IF next_frame # NoImage
                THEN thr'[t].pc = "cal_got" /\ thr'[t].src = "prefetch"
                ELSE thr'[t].pc = "cal_lock_cap" /\ thr'[t].src = "none"
          /\ thr[t].pc = "cal_got" /\ thr[t].res = "ok" /\ thr'[t] # thr[t] =>
                thr'[t].pc = "cal_detect" /\ thr'[t].trig /\ thr'[t].det = "none"
          /\ thr'[t].pc = "cal_detect" =>
                /\ thr'[t].trig /\ thr'[t].res = "ok"
                /\ thr'[t].src \in {"prefetch", "sync"}
                /\ thr'[t].img # NoImage
          /\ thr[t].det = "none" /\ thr'[t].det # "none" =>
                thr[t].pc = "cal_detect" /\ thr[t].trig ]_vars

\* a tick that captured synchronously has spawned the prefetch and is at its
\* Detector call while the prefetch thread captures the next frame
Wit_C15_CaptureOverlapsDetect ==
    \E t \in TickIds, p \in PrefIds :
        /\ thr[t].pc = "cal_detect" /\ thr[t].src = "sync" /\ thr[t].spawned
        /\ thr[p].pc = "ss_begin" /\ captureOwner = p

\* C16: emit_frame_info and apply_mosaic are called only in a tick whose
\* capture and whose Detector call both succeeded; a tick whose capture failed
\* ends without a Detector call; a tick that failed leaves its loop thread
\* alive, and the step that thread takes next is the test at the head of the
\* loop, which starts the next tick if a working display is set.
Thm_C16_FailedTickSilent ==
    [][ \A t \in TickIds :
          /\ thr'[t].emitted \/ thr'[t].mosaic =>
                thr'[t].res = "ok" /\ thr'[t].det = "ok"
          /\ TickFailed(thr'[t]) =>
                /\ ~thr'[t].emitted /\ ~thr'[t].mosaic
                /\ thr'[t].pc \notin {"idle", "done"}
          /\ thr[t].pc = "cal_got" /\ thr[t].res = "err" /\ thr'[t] # thr[t] =>
                thr'[t].pc = "loop" /\ thr'[t].det = "none"
          /\ thr[t].pc = "loop" /\ TickFailed(thr[t]) /\ thr'[t] # thr[t] =>
                thr'[t].pc = IF working = << >> THEN "done" ELSE "cal" ]_vars

\* the first tick has ended with a capture that failed with every method and
\* GDI; its thread is at the head of the loop, nothing having been published
Wit_C16_FailedTickEnded ==
    \E t \in TickIds :
        /\ nticks = 1 /\ thr[t].pc = "loop"
        /\ thr[t].res = "err" /\ thr[t].det = "none"
        /\ ~thr[t].emitted /\ ~thr[t].mosaic
        /\ working # << >>

\* C17: in a session that is not stopped a new tick starts again and again,
\* whatever the ticks before it did, and the loop thread never ends: the loop
\* is left only when no working display is set.
Thm_C17_NoCircuitBreaker ==
    /\ []<>(thr[SessionThread].pc = "cal")
    /\ [][ \A t \in TickIds :
             thr[t].pc # "done" /\ thr'[t].pc = "done" => working = << >> ]_vars

\* a tick starts after MaxFails ticks in a row have failed
Wit_C17_TickAfterFailures ==
    /\ thr[SessionThread].pc = "cal"
    /\ thr[SessionThread].fails = MaxFails
    /\ working # << >>

\* no stop_monitoring is joining, no set_working_monitor is under way and no
\* working display is set: the last stop_monitoring has returned
Stopped == working = << >> /\ joiner = None /\ ~starter

\* C18 as stated: once stop_monitoring has returned, and until the next
\* start, no loop thread is inside a tick (so that none calls the Detector or
\* publishes): each has ended, or is at the head of the loop or at the test
\* of the working display that opens cal(), about to leave.
CE_C18_StopQuiesces ==
    Stopped => \A t \in TickIds : thr[t].pc \in {"idle", "done", "loop", "cal"}

\* C19 as stated: the loop thread that stop_monitoring joins leaves the loop
\* at the next test at the head of the loop.
CE_C19_JoinedThreadExits ==
    [][ \A t \in TickIds :
          joiner = t /\ thr[t].pc = "loop" /\ thr'[t].pc # "loop" =>
             thr'[t].pc = "done" ]_vars

\* C20 as stated: no tick takes, once stop_monitoring has returned, a frame
\* that was stored by a prefetch in flight at that stop.
CE_C20_StaleFrameNotTaken ==
    \A t \in TickIds : ~thr[t].stale

\* the call record_result(d, m, ok) a step of SelSpec has made
Recorded(d, m, ok) ==
    /\ ncap' = ncap + 1
    /\ thr'[Main].pc = "recorded" /\ thr'[Main].mon = d
    /\ thr'[Main].tried = <<[method |-> m, ok |-> ok]>>

\* C11: a recorded success for method m on display d adds one to d's counter
\* of m, which stays at the maximum once there and is at least 1 afterwards,
\* and leaves d's counters of the two other methods as they were.
Thm_C11_SuccessCounts ==
    [][ \A d \in Displays, m \in CaptureMethod :
          Recorded(d, m, TRUE) =>
            LET old == StatsOf(capture_state, d)
                new == StatsOf(capture_state', d)
            IN /\ CounterOf(new, m) =
                     IF CounterOf(old, m) = U32_MAX THEN U32_MAX
                     ELSE CounterOf(old, m) + 1
               /\ CounterOf(new, m) >= 1
               /\ \A o \in CaptureMethod \ {m} :
                     CounterOf(new, o) = CounterOf(old, o) ]_vars

\* a success for Standard was recorded at the maximum, next to a counter of
\* Alternative that is not zero
Wit_C11_SaturatedSuccess ==
    \E d \in Displays :
        /\ thr[Main].pc = "recorded" /\ thr[Main].mon = d
        /\ thr[Main].tried = <<[method |-> "Standard", ok |-> TRUE]>>
        /\ d \in DOMAIN capture_state
        /\ capture_state[d].consec_standard = U32_MAX
        /\ capture_state[d].consec_alternative = 2

\* C12: a recorded failure for method m on display d sets d's counter of m
\* to 0 and leaves d's counters of the two other methods as they were.
Thm_C12_FailureResetsOwn ==
    [][ \A d \in Displays, m \in CaptureMethod :
          Recorded(d, m, FALSE) =>
            LET old == StatsOf(capture_state, d)
                new == StatsOf(capture_state', d)
            IN /\ CounterOf(new, m) = 0
               /\ \A o \in CaptureMethod \ {m} :
                     CounterOf(new, o) = CounterOf(old, o) ]_vars

\* a failure for Optimized was recorded next to a counter of Standard that
\* is at the threshold
Wit_C12_FailureBesideStreak ==
    \E d \in Displays :
        /\ thr[Main].pc = "recorded" /\ thr[Main].mon = d
        /\ thr[Main].tried = <<[method |-> "Optimized", ok |-> FALSE]>>
        /\ d \in DOMAIN capture_state
        /\ capture_state[d].consec_optimized = 0
        /\ capture_state[d].consec_standard = SUCCESS_THRESHOLD

\* C13: a step of a capture of display D (a recorded result included) leaves
\* the entry of every other display as it was: its counters, its preferred
\* method, and with them the start method and attempt order chosen for it.
Thm_C13_PerDisplay ==
    [][ \A d \in Displays :
          d # thr[Main].mon =>
            /\ (d \in DOMAIN capture_state') = (d \in DOMAIN capture_state)
            /\ StatsOf(capture_state', d) = StatsOf(capture_state, d)
            /\ AttemptOrder(choose_start_method(capture_state', d)) =
                  AttemptOrder(choose_start_method(capture_state, d)) ]_vars

\* display 0 has earned Standard as its preferred method, and a capture of
\* display 1 has just recorded a failure of Optimized
Wit_C13_OtherDisplayFails ==
    /\ 0 \in DOMAIN capture_state /\ 1 \in DOMAIN capture_state
    /\ capture_state[0].preferred = "Standard"
    /\ capture_state[0].consec_standard >= SUCCESS_THRESHOLD
    /\ capture_state[1].preferred = "Optimized"
    /\ thr[Main].mon = 1
    /\ thr[Main].tried = <<[method |-> "Optimized", ok |-> FALSE]>>

(***************************************************************************)
(* Properties of the result of a capture, of the frames and of the pool.   *)
(***************************************************************************)
\* every adaptive method of the attempt was tried and none gave a valid frame
AdaptiveExhausted(l) ==
    /\ l.dx # "ok"
    /\ Len(l.tried) = 4 - Rank(l.start)
    /\ \A i \in 1..Len(l.tried) : ~l.tried[i].ok

\* C21 as stated: a capture returns a failure exactly when every adaptive
\* method tried and GDI each failed or gave a frame the validator rejects.
CE_C21_FailsIffAllRejected ==
    \A t \in SessionThreads :
        LET l == thr[t]
        IN l.pc = "ss_ret" =>
             ((l.res = "err") <=>
                 /\ AdaptiveExhausted(l)
                 /\ l.gdi = 1
                 /\ (l.gdires = "err" \/ ~IsValid(l.img)))

\* C21: a capture returns a failure exactly when every adaptive method tried
\* failed or gave a rejected frame and GDI then returned an error; in every
\* other case it returns a frame (a GDI frame is returned without being
\* validated), and the tick that made the capture sees that result and
\* nothing else of the backends.
Thm_C21_FailsIffGdiFails ==
    \A t \in SessionThreads :
        LET l == thr[t]
        IN /\ l.pc = "ss_ret" =>
                /\ (l.res = "err") <=>
                      (AdaptiveExhausted(l) /\ l.gdi = 1 /\ l.gdires = "err")
                /\ l.res \in {"ok", "err"}
                /\ (l.res = "ok") <=> (l.img # NoImage)
                /\ (l.res = "ok" /\ l.gdi = 0) => IsValid(l.img)
           /\ (l.pc = "cal_got" /\ l.src = "sync") =>
                /\ l.res \in {"ok", "err"}
                /\ (l.res = "ok") <=> (l.img # NoImage)
                /\ l.tried = << >> /\ l.dx = "none" /\ l.gdires = "none"

\* the tick's own capture tried all three methods and GDI, and all failed
Wit_C21_TickSeesExhaustion ==
    /\ thr[SessionThread].pc = "ss_ret"
    /\ thr[SessionThread].res = "err"
    /\ Len(thr[SessionThread].tried) = 3
    /\ thr[SessionThread].gdi = 1

\* C22: a display's preferred method never moves to a better-ranked method:
\* every change goes from Optimized towards Alternative, so it changes at
\* most twice in a run and never returns to a method it has left, however
\* the backends' successes and failures alternate.
Thm_C22_NoFlapping ==
    [][\A d \in Displays :
          Rank(StatsOf(capture_state', d).preferred)
             >= Rank(StatsOf(capture_state, d).preferred)]_vars

\* the preferred method has moved to Alternative; an attempt starts there,
\* Alternative fails, and the preferred method stays where it is
Wit_C22_FailureAfterConvergence ==
    \E d \in DOMAIN capture_state :
        /\ streak[d]["Standard"] = 0 /\ capture_state[d].consec_standard = 0
        /\ capture_state[d].preferred = "Alternative"
        /\ capture_state[d].consec_alternative = 0
        /\ thr[Main].mon = d
        /\ thr[Main].start = "Alternative"
        /\ thr[Main].tried = <<[method |-> "Alternative", ok |-> FALSE]>>

\* the BGRA size relation of one Image
SizeOk(image) == Len(image.data) = image.width * image.height * 4

\* C23: every Image a backend has returned, every frame in the frame buffer
\* and every frame a tick holds has four bytes per pixel of its own width
\* and height, and so has the buffer the Detector gets for it, whatever the
\* configured downscale ratio.
Thm_C23_BgraSize ==
    /\ SizeOk(next_frame)
    /\ \A t \in SessionThreads :
          /\ SizeOk(thr[t].dximg)
          /\ SizeOk(thr[t].img)
          /\ thr[t].pc = "cal_detect" =>
                \A cs \in CaptureScales : SizeOk(detection_image(thr[t].img, cs))

\* a tick is about to detect on a prefetched frame while the next frame waits
\* in the frame buffer, and the half-size copy of its frame is really smaller
Wit_C23_DownscaledCopy ==
    /\ thr[SessionThread].pc = "cal_detect"
    /\ thr[SessionThread].src = "prefetch"
    /\ next_frame # NoImage
    /\ detection_image(thr[SessionThread].img, 5000).width < thr[SessionThread].img.width

\* the pixels at the 8 x 8 sampling positions of a frame
Sampled(image) ==
    LET offs == SampleOffsets(Max(image.width, 1), Max(image.height, 1))
    IN { PixelAt(image.data, offs[k]) : k \in 1..Len(offs) }

\* every pixel of the frame has the same four bytes
Solid(image) ==
    \A i \in 1..Len(image.data) : image.data[i] = image.data[((i - 1) % 4) + 1]

\* C24: the validator answers true exactly when some sampled pixel is
\* non-zero and two sampled pixels differ; so it rejects every frame of one
\* colour, all zero or not, and accepts every frame with two different
\* sampled pixels and a non-zero sampled pixel.
Thm_C24_Validator ==
    LET l == thr[Main]
    IN l.pc = "validated" =>
         /\ (l.res = "valid") <=>
               /\ \E a \in Sampled(l.img) : a # <<0, 0, 0, 0>>
               /\ \E a, b \in Sampled(l.img) : a # b
         /\ Solid(l.img) => l.res = "blank"
         /\ (Cardinality(Sampled(l.img)) >= 2
               /\ Sampled(l.img) # {<<0, 0, 0, 0>>}) => l.res = "valid"

\* a frame that is not of one colour is rejected, because the one pixel
\* that differs is not at a sampling position
Wit_C24_UnsampledPixel ==
    /\ thr[Main].pc = "validated"
    /\ thr[Main].res = "blank"
    /\ ~Solid(thr[Main].img)
    /\ thr[Main].img.data[1] # 0

Thm_C26_SymmetricMask ==
    LET l == thr[SessionThread]
        Abs(n) == IF n >= 0 THEN n ELSE 0 - n
    IN l.pc = "det_done" /\ l.det = "ok" =>
         /\ l.mosaic
         /\ Len(l.mosaics) = Len(l.mapped)
         /\ \A i \in 1..Len(l.mapped) :
               LET r == l.mapped[i]
                   m == l.mosaics[i]
               IN /\ m.width = Round(r.width * l.ms, 100)
                  /\ m.height = Round(r.height * l.ms, 100)
                  /\ Abs((2 * m.x + m.width) - (2 * r.x + r.width)) <= 2
                  /\ Abs((2 * m.y + m.height) - (2 * r.y + r.height)) <= 2

\* a region enlarged by a factor above 1 whose mask cannot be centred on it:
\* the mask is wider than the region by an odd number of pixels, so twice
\* the centres differ, by no more than the bound
Wit_C26_OffCentreMask ==
    LET l == thr[SessionThread]
    IN /\ l.pc = "det_done" /\ l.det = "ok" /\ l.ms > 100
       /\ \E i \in 1..Len(l.mapped) :
             /\ l.mosaics[i].width > l.mapped[i].width
             /\ 2 * l.mosaics[i].x + l.mosaics[i].width
                   # 2 * l.mapped[i].x + l.mapped[i].width

\* C28 as stated: when the OS reports no display, list_monitors returns an
\* error and not a successful empty list.
CE_C28_NoDisplaysIsError ==
    thr[Main].pc = "list_done" /\ thr[Main].os = << >> =>
        thr[Main].res = "err"

CE_C30_LastCall ==
    LET l == thr[Main]
    IN /\ l.devs <= 1
       /\ l.op = "ensure" /\ l.parg # <<0, 0>> =>
             /\ l.made /\ l.was.staging_texture => l.arg # l.parg
             /\ l.arg = l.parg => pool = l.was

\* C30: the device is created at most once; a call of
\* ensure_staging_texture replaces an existing staging texture only when its
\* (w, h) differs from the dimensions recorded at the last creation that
\* succeeded, and then records its own; a call with the recorded dimensions
\* returns Ok and leaves the manager as it was.
Thm_C30_RecordedDims ==
    LET l == thr[Main]
        rec == <<l.was.last_width, l.was.last_height>>
    IN /\ l.devs <= 1
       /\ l.op = "initialize" /\ l.was.is_initialized => ~l.made /\ pool = l.was
       /\ l.op = "ensure" /\ l.was.staging_texture =>
             /\ l.made => l.arg # rec
             /\ l.made => <<pool.last_width, pool.last_height>> = l.arg
             /\ l.arg = rec => ~l.made /\ l.res = "ok" /\ pool = l.was
             /\ ~l.made => pool = l.was

\* a texture exists, the call before this one asked for other dimensions and
\* failed, and this call asks for the recorded ones: nothing is created
Wit_C30_ReuseAfterFailedResize ==
    LET l == thr[Main]
    IN /\ l.op = "ensure" /\ l.devs = 1
       /\ l.was.staging_texture
       /\ l.arg = <<l.was.last_width, l.was.last_height>>
       /\ l.parg # <<0, 0>> /\ l.parg # l.arg
       /\ ~l.made /\ pool = l.was

\* C27 as stated: every payload forwarded is the one put in MOSAIC_EMIT_BUF
\* last before the publisher's wake-up, the wake-ups take later and later
\* payloads, so that the ones in between are dropped and none is forwarded
\* twice; the seq of the payloads forwarded only grows; and a tick that is
\* about to publish can always do so.
CE_C27_LatestWins ==
    /\ \A k \in 1..Len(forwarded) :
          /\ forwarded[k].at \in 1..Len(published)
          /\ forwarded[k].seq = published[forwarded[k].at]
    /\ \A j, k \in 1..Len(forwarded) :
          j < k => /\ forwarded[j].at < forwarded[k].at
                   /\ forwarded[j].seq # forwarded[k].seq
                   /\ forwarded[j].seq < forwarded[k].seq
    /\ \A t \in TickIds :
          thr[t].pc = "set_latest_for_emit" => ENABLED set_latest_for_emit(t)

\* C5: the start method the code would choose is the stored preferred method
\* of every display, an attempt starts there, and the methods tried so far
\* followed by the methods still to try are the order that belongs to the start.
Thm_C5_StartAtPreferred ==
    /\ \A d \in Displays : choose_start_method(capture_state, d) = StoredPreferred(d)
    /\ \A t \in Threads :
         /\ (thr[t].pc = "dx_loop" /\ thr[t].tried = << >>)
               => /\ thr[t].start = StoredPreferred(thr[t].mon)
                  /\ thr[t].order =
                        SubSeq(<<"Optimized", "Standard", "Alternative">>,
                               Rank(thr[t].start), 3)
         /\ InDxLoop(thr[t])
               => MethodsTried(thr[t]) \o thr[t].order =
                        SubSeq(<<"Optimized", "Standard", "Alternative">>,
                               Rank(thr[t].start), 3)

Wit_C5_StartsAtAlternative ==
    \E t \in Threads :
        /\ thr[t].pc = "dx_loop" /\ thr[t].tried = << >>
        /\ thr[t].start = "Alternative"
        /\ thr[t].order = <<"Alternative">>

\* C6: within an attempt the methods are tried one at a time in order; only
\* the last method tried can have succeeded; a success ends the attempt with
\* its frame, a recorded success and no GDI call; a failure is recorded (the
\* method's counter is 0) and the attempt goes on.
Thm_C6_OneAtATime ==
    \A t \in Threads :
        LET l == thr[t]
            n == Len(l.tried)
            e == StatsOf(capture_state, l.mon)
        IN InAttempt(l) =>
            /\ \A i \in 1..n : i < n => ~l.tried[i].ok
            /\ \A i \in 1..n : l.tried[i].method =
                  SubSeq(<<"Optimized", "Standard", "Alternative">>,
                         Rank(l.start), 3)[i]
            /\ (l.dx = "ok") <=> (n > 0 /\ l.tried[n].ok)
            /\ (n > 0 /\ l.tried[n].ok)
                  => /\ l.pc \in {"ss_check", "ss_ret"}
                     /\ l.gdi = 0
                     /\ IsValid(l.dximg)
                     /\ CounterOf(e, l.tried[n].method) >= 1
                     /\ l.pc = "ss_ret" => (l.res = "ok" /\ l.img = l.dximg)
            /\ (n > 0 /\ ~l.tried[n].ok)
                  => /\ CounterOf(e, l.tried[n].method) = 0
                     /\ l.pc = "dx_loop" => n + Len(l.order) = 4 - Rank(l.start)

Wit_C6_SecondMethodSucceeds ==
    \E t \in Threads :
        /\ thr[t].pc = "ss_ret"
        /\ Len(thr[t].tried) = 2
        /\ ~thr[t].tried[1].ok /\ thr[t].tried[2].ok
        /\ thr[t].order = <<"Alternative">>

\* C7: GDI is called at most once per attempt, exactly when every adaptive
\* method of the order has failed, never after an adaptive success, and what
\* it returns is what the attempt returns, blank frame or not.
Thm_C7_GdiLastResort ==
    \A t \in Threads :
        LET l == thr[t]
        IN InAttempt(l) =>
            /\ l.gdi <= 1
            /\ l.dx = "ok" => l.gdi = 0
            /\ l.pc = "gdi"
                  => /\ l.gdi = 0
                     /\ Len(l.tried) = 4 - Rank(l.start)
                     /\ \A i \in 1..Len(l.tried) : ~l.tried[i].ok
            /\ l.pc = "ss_ret"
                  => /\ (l.gdi = 1) <=> (l.dx # "ok")
                     /\ l.gdi = 1 => /\ l.res = l.gdires
                                     /\ (l.res = "ok") <=> (l.img # NoImage)

Wit_C7_GdiBlankReturned ==
    \E t \in Threads :
        /\ thr[t].pc = "ss_ret" /\ thr[t].gdi = 1
        /\ thr[t].res = "ok" /\ ~IsValid(thr[t].img)

\* C8: after every step, a display's preferred method is the best-ranked
\* method whose counter is at least SUCCESS_THRESHOLD and, when no counter
\* has reached it, the preferred method the display had before the step.
Thm_C8_Promotion ==
    [][\A d \in Displays :
          LET b == StatsOf(capture_state, d)
              a == StatsOf(capture_state', d)
          IN IF Reached(a) # {} THEN a.preferred = Highest(Reached(a))
             ELSE a.preferred = b.preferred]_vars

Wit_C8_PromotedToStandard ==
    \E d \in DOMAIN capture_state :
        /\ capture_state[d].preferred = "Standard"
        /\ capture_state[d].consec_standard >= SUCCESS_THRESHOLD
        /\ capture_state[d].consec_alternative > 0

\* C9: whenever a display's preferred method changes, the new one has a
\* counter at the threshold, and if the new one ranks lower than the old one
\* then the old one's counter is 0.
Thm_C9_PreferredChanges ==
    [][\A d \in Displays :
          LET b == StatsOf(capture_state, d)
              a == StatsOf(capture_state', d)
          IN a.preferred # b.preferred
                => /\ CounterOf(a, a.preferred) >= SUCCESS_THRESHOLD
                   /\ Rank(a.preferred) > Rank(b.preferred)
                         => CounterOf(a, b.preferred) = 0]_vars

Wit_C9_DemotedToAlternative ==
    \E d \in DOMAIN capture_state :
        /\ capture_state[d].preferred = "Alternative"
        /\ capture_state[d].consec_optimized = 0
        /\ capture_state[d].consec_standard = 0

\* C10: when a success is recorded that makes it three or more successes in
\* a row for a method on a display, that method is the display's preferred
\* method right after the record.
Thm_C10_StreakPromotes ==
    [][\A d \in Displays : \A m \in CaptureMethod :
          (streak'[d][m] = streak[d][m] + 1 /\ streak'[d][m] >= 3)
             => StatsOf(capture_state', d).preferred = m]_vars

Wit_C10_FourthSuccess ==
    \E d \in Displays : \E m \in {"Standard", "Alternative"} :
        /\ streak[d][m] >= 4
        /\ StoredPreferred(d) = m

(***************************************************************************)
(* Properties of the loop interval, the downscale, the termination of a    *)
(* capture, the order and the origin of the frames.                       *)
(***************************************************************************)
\* C31: whatever interval is configured, 0 included, the interval of the
\* loop lies between 8 and 1000 ms, is the configured one when that lies
\* between 8 and 1000, and every sleep between ticks lasts this interval,
\* so at least 8 ms.
Thm_C31_IntervalClamp ==
    LET l == thr[SessionThread]
    IN l.pc = "loop" =>
         /\ l.interval \in 8..1000
         /\ l.cfg_interval \in 8..1000 => l.interval = l.cfg_interval
         /\ l.cfg_interval < 8 => l.interval = 8
         /\ l.cfg_interval > 1000 => l.interval = 1000
         /\ nticks > 0 => l.slept = l.interval /\ l.slept >= 8

\* interval 0 is configured and the loop has slept 8 ms after a tick
Wit_C31_ZeroConfigured ==
    /\ thr[SessionThread].pc = "loop"
    /\ thr[SessionThread].cfg_interval = 0
    /\ nticks > 0
    /\ thr[SessionThread].slept = 8

\* the nearest-neighbour resample of src at the given ratio: round(width *
\* ratio) by round(height * ratio) pixels, at least 1 by 1, pixel (dx, dy)
\* being the pixel of src at (dx * width / dst width, dy * height / dst height),
\* rounded down
IsResample(dst, src, ratio) ==
    LET dw == Max(Round(src.width * ratio, Unit), 1)
        dh == Max(Round(src.height * ratio, Unit), 1)
    IN /\ dst.width = dw /\ dst.height = dh
       /\ Len(dst.data) = dw * dh * 4
       /\ \A dx \in 0..(dw - 1), dy \in 0..(dh - 1), k \in 1..4 :
             dst.data[(dy * dw + dx) * 4 + k]
               = src.data[(((dy * src.height) \div dh) * src.width
                             + ((dx * src.width) \div dw)) * 4 + k]

\* C32 as stated: with a capture_scale r inside (0, 1) the Detector gets the
\* nearest-neighbour resample of the frame at the ratio r, and with any
\* other capture_scale it gets the frame.
CE_C32_RatioAsConfigured ==
    LET l == thr[SessionThread]
    IN l.pc = "det_call" =>
         IF l.cs > 0 /\ l.cs < Unit
         THEN IsResample(l.dimg, l.img, l.cs)
         ELSE l.dimg = l.img

\* C32: with a capture_scale r above 0 and below 0.9999 the Detector gets
\* the nearest-neighbour resample of the frame at the ratio max(r, 0.1), and
\* with any other capture_scale it gets the frame.
Thm_C32_RatioClamped ==
    LET l == thr[SessionThread]
    IN l.pc = "det_call" =>
         IF l.cs > 0 /\ l.cs < 9999
         THEN IsResample(l.dimg, l.img, Max(l.cs, 1000))
         ELSE l.dimg = l.img

\* capture_scale 0.05 on a 20 x 10 frame: the Detector gets 2 x 1 pixels, the
\* first and the eleventh of the first row, and not the 1 x 1 of ratio 0.05
Wit_C32_BelowFloor ==
    LET l == thr[SessionThread]
    IN /\ l.pc = "det_call" /\ l.cs = 500
       /\ l.img.width = 20 /\ l.img.height = 10
       /\ l.dimg.width = 2 /\ l.dimg.height = 1
       /\ l.dimg.data[1] = 1 /\ l.dimg.data[5] = 11

\* what one screen_shot call has done so far stays inside the bounds of the
\* code: the DuplicateOutput calls of a backend, the AcquireNextFrame calls,
\* their timeout, each backend run once at most, and GDI called once, after
\* the backends
RetryBounds ==
    LET l == thr[Main]
    IN /\ l.dups["Optimized"] <= 5
       /\ l.dups["Standard"] <= 3
       /\ l.dups["Alternative"] <= 5
       /\ l.acqs["Optimized"] <= 1
       /\ l.acqs["Standard"] <= 1
       /\ l.acqs["Alternative"] <= 10
       /\ l.timeout <= 1000
       /\ \A i, j \in 1..Len(l.tried) : l.tried[i].method = l.tried[j].method => i = j
       /\ l.gdi <= 1
       /\ l.gdi = 1 => l.pc = "ss_ret"

\* C33: a capture asks at most 5, 3 and 5 times for the duplication session
\* in Optimized, Standard and Alternative, Alternative makes at most 10
\* frame acquisitions, every frame wait has a timeout of at most a second,
\* every backend is run at most once and before the one GDI call, and the
\* capture returns: with a frame or with an error.
Thm_C33_CaptureTerminates ==
    /\ []RetryBounds
    /\ <>(/\ thr[Main].pc = "ss_ret"
           /\ thr[Main].res \in {"ok", "err"}
           /\ thr[Main].res = "ok" <=> thr[Main].img # NoImage)

\* the longest capture: every loop of every backend runs to its bound (the
\* fifth DuplicateOutput of Alternative succeeds, its ten acquisitions do
\* not), and GDI has returned
Wit_C33_EveryLoopExhausted ==
    LET l == thr[Main]
    IN /\ l.pc = "ss_ret" /\ l.gdi = 1
       /\ l.dups["Optimized"] = 5 /\ l.dups["Standard"] = 3
       /\ l.dups["Alternative"] = 5 /\ l.acqs["Alternative"] = 10
       /\ Len(l.tried) = 3

\* the caller is about to run, or is running, method m on display d
Attempting(d, m) ==
    /\ thr[Main].mon = d
    /\ \/ Trying(Main, m)
       \/ m = "Optimized" /\ thr[Main].pc \in {"opt_acquire", "opt_copy"}

\* C34: while the preferred method of a display is Standard no capture of
\* that display runs Optimized, while it is Alternative none runs Optimized
\* or Standard, and no step moves the preferred method of a display to a
\* method ranked better than the one it has: a demotion is never undone.
Thm_C34_DemotionPermanent ==
    [][\A d \in Displays :
          LET p == StatsOf(capture_state, d).preferred
          IN /\ \A m \in CaptureMethod : Rank(m) < Rank(p) => ~Attempting(d, m)
             /\ \A m \in CaptureMethod :
                   Rank(m) < Rank(p) => StatsOf(capture_state', d).preferred # m]_vars

\* the preferred method of a display has gone down to Standard, and a later
\* capture of it, which started at Standard, is about to run Alternative
\* after Standard failed
Wit_C34_StartsBelowOptimized ==
    \E d \in DOMAIN capture_state :
        /\ capture_state[d].preferred = "Standard"
        /\ thr[Main].mon = d /\ thr[Main].start = "Standard"
        /\ thr[Main].tried = <<[method |-> "Standard", ok |-> FALSE]>>
        /\ Trying(Main, "Alternative")

\* C35 as stated: the frame a tick gives to the Detector was captured no
\* earlier than the frame the tick before it gave to the Detector.
CE_C35_CaptureOrder ==
    \A i \in 1..(Len(overlay.detected) - 1) :
        overlay.detected[i] <= overlay.detected[i + 1]

\* the loop threads that have been spawned and have not left the loop
AliveLoops == {t \in TickIds : thr[t].pc \notin {"idle", "done"}}

\* C36 as stated: at most one loop thread is alive at any time, whatever the
\* set_working_monitor and stop_monitoring calls made, and none is alive once
\* stop_monitoring has returned.
CE_C36_SingleLoop ==
    /\ Cardinality(AliveLoops) <= 1
    /\ Stopped => AliveLoops = {}

\* C37 as stated: the frame a tick holds and goes on to process is a frame of
\* the display the tick read as the working display (the displays differ in
\* width, so the size of a frame tells the display it was captured from).
CE_C37_FrameOfWorkingDisplay ==
    \A t \in TickIds :
        thr[t].pc \in {"cal_got", "cal_detect"} /\ thr[t].res = "ok" =>
            /\ thr[t].img.width = MonitorInfo(thr[t].mon).width
            /\ thr[t].img.height = MonitorInfo(thr[t].mon).height

\* C38: the flag is set only while the prefetch thread that set it has not
\* ended, and it is cleared again and again: every prefetch, whether its
\* capture succeeds or fails and whether or not it finds a working display,
\* ends by clearing the flag, after which a spawn_prefetch() call can start
\* the next one.
Thm_C38_FlagReleased ==
    /\ [](PREFETCHING => \E p \in PrefIds : thr[p].pc # "idle")
    /\ []<>(~PREFETCHING)

\* a prefetch that was spawned before a stop_monitoring and found no working
\* display is about to end, the flag still set
Wit_C38_NoWorkingDisplay ==
    \E p \in PrefIds :
        /\ thr[p].pc = "pf_end" /\ thr[p].atstop /\ thr[p].acq = << >>
        /\ working = << >> /\ PREFETCHING

\* the region lies inside a buffer of the given width and height
Inside(r, size) ==
    /\ r.x >= 0 /\ r.y >= 0
    /\ r.x + r.width <= size[1] /\ r.y + r.height <= size[2]

\* C39 as stated: when every region the Detector returned lies inside the
\* detection buffer, every region mapped back lies inside the native frame,
\* whatever the frame size and the downscale ratio.
CE_C39_MappedInsideFrame ==
    LET l == thr[SessionThread]
    IN l.pc \in {"det_mosaic", "det_done"} /\ l.det = "ok" =>
         ((\A i \in 1..Len(l.rects) : Inside(l.rects[i], l.dsize))
            => \A i \in 1..Len(l.mapped) : Inside(l.mapped[i], l.size))

====
